---- MODULE Spec2Model ----
(***************************************************************************)
(* m7-js-lib-primitive-log: the Worker (single log stream) with its record *)
(* model (utils.makeRecord) and policy normalizers, as a state machine.    *)
(*                                                                         *)
(* A Worker is a record whose fields are the fields of the JS object.      *)
(* Every method is an operator from a Worker (and its arguments) to the    *)
(* Worker after the call together with what the call returned or threw.    *)
(* Array indices are 0-based in the source; a TLA+ sequence is 1-based, so *)
(* the slot `_events[i]` of the source is `_events[i + 1]` here.           *)
(***************************************************************************)
EXTENDS Integers, Sequences, FiniteSets, TLC

VARIABLES worker, hist, last, limitChanged, cleared, manager

vars == <<worker, hist, last, limitChanged, cleared, manager>>

\* ------------------------------------------------------------------------
\* Bounds of the model
\* ------------------------------------------------------------------------
MaxLimit == 3
MaxEmits == 5
MaxHookEmits == 3
MaxTimedEmits == 3
MaxQueryEmits == 3
MaxPrintEmits == 1
MaxConfigEmits == 2
MaxCloneEmits == 3
MaxManagerEmits == 2
MaxRegistryEmits == 2

\* ------------------------------------------------------------------------
\* JavaScript values (tagged, so that values of different types compare)
\* ------------------------------------------------------------------------
JUndef   == [type |-> "undefined"]
JNull    == [type |-> "null"]
JBool(b) == [type |-> "boolean", b |-> b]
JNum(n)  == [type |-> "number", n |-> n]
\* a finite number that is not an integer (1.5), NaN
JFrac    == [type |-> "number", frac |-> "1.5"]
JNaN     == [type |-> "number", frac |-> "NaN"]
JInf     == [type |-> "number", frac |-> "Infinity"]
JStr(s)  == [type |-> "string", s |-> s]
JFn(f)   == [type |-> "function", f |-> f]
JObj(o)  == [type |-> "object", o |-> o]
JArr(o)  == [type |-> "object", arr |-> o]

IsInt(v) == v.type = "number" /\ "n" \in DOMAIN v

\* !value
Falsy(v) ==
    \/ v.type \in {"undefined", "null"}
    \/ v.type = "boolean" /\ ~v.b
    \/ IsInt(v) /\ v.n = 0
    \/ v = JNaN
    \/ v.type = "string" /\ v.s = ""

\* an empty array slot / `undefined` read from the storage array
Hole == [hole |-> TRUE]

\* the specifications of a single Worker have no Manager
NoManager == JNull

\* ------------------------------------------------------------------------
\* constants.js
\* ------------------------------------------------------------------------
OFF     == 0
ERROR   == 1
WARN    == 2
INFO    == 3
LOG     == 4
ALL     == 5

\* ------------------------------------------------------------------------
\* utils.js
\* ------------------------------------------------------------------------
\* the result of a call that may throw
Ok(v)  == [ok |-> TRUE, val |-> v]
Throws == [ok |-> FALSE]

\* Number(value) for the strings of the model
StrToNum(s) ==
    CASE s = "0"   -> JNum(0)
      [] s = " "   -> JNum(0)
      [] s = "1"   -> JNum(1)
      [] s = "2"   -> JNum(2)
      [] s = "-1"  -> JNum(0 - 1)
      [] s = "1.5" -> JFrac
      [] OTHER     -> JNaN

_normalizeLogMax(value) ==
    IF Falsy(value) THEN Ok(0)
    ELSE IF value = JStr("0") THEN Ok(0)
    ELSE LET num == IF value.type = "string" THEN StrToNum(value.s) ELSE value
         IN  IF ~(num.type = "number" /\ num # JNaN) THEN Throws
             ELSE IF ~IsInt(num) THEN Throws
             ELSE IF num.n < 0 THEN Throws
             ELSE IF num.n = 0 THEN Ok(0)
             ELSE Ok(num.n)

\* String.prototype.toUpperCase for the strings of the model
ToUpperCase(s) ==
    CASE s = "off"   -> "OFF"
      [] s = "error" -> "ERROR"
      [] s = "warn"  -> "WARN"
      [] s = "info"  -> "INFO"
      [] s = "log"   -> "LOG"
      [] s = "all"   -> "ALL"
      [] OTHER       -> s

\* String.prototype.toLowerCase for the strings of the model
ToLowerCase(s) ==
    CASE s = "ERROR"   -> "error"
      [] s = "WARN"    -> "warn"
      [] s = "WARNING" -> "warning"
      [] s = "INFO"    -> "info"
      [] s = "LOG"     -> "log"
      [] OTHER         -> s

CONSOLE_LEVEL ==
    [OFF |-> OFF, ERROR |-> ERROR, WARN |-> WARN, INFO |-> INFO, LOG |-> LOG, ALL |-> ALL]

_normalizeConsoleLevel(value) ==
    IF Falsy(value) THEN OFF
    ELSE IF value = JBool(TRUE) THEN ALL
    ELSE IF IsInt(value)
         THEN IF value.n < OFF THEN OFF
              ELSE IF value.n > ALL THEN ALL
              ELSE value.n
    ELSE IF value.type = "string" /\ ToUpperCase(value.s) \in DOMAIN CONSOLE_LEVEL
         THEN CONSOLE_LEVEL[ToUpperCase(value.s)]
    ELSE OFF

\* the clock a Worker holds is a function value; Date.now is one of them
DateNow == JFn("Date.now")

_getClock(value) ==
    IF Falsy(value) THEN Ok(DateNow)
    ELSE IF value.type = "function" THEN Ok(value)
    ELSE Throws

\* `resolved` is what lib.func.get(value) returns when the global lib offers
\* it, and JUndef when it does not
_getFunction(value, resolved) ==
    IF Falsy(value) THEN Ok(JNull)
    ELSE IF value.type = "function" THEN Ok(value)
    ELSE IF resolved.type = "function" THEN Ok(resolved)
    ELSE Throws

\* structuredClone / lib.utils.deepCopy give a copy of the object; `copies`
\* says whether one of the two strategies is available and succeeds
cloneBestEffort(body, copies) ==
    IF copies THEN [body EXCEPT !.copy = TRUE] ELSE body

\* a - b on JS numbers
Minus(a, b) ==
    LET x == IF a = JNull THEN JNum(0) ELSE a
        y == IF b = JNull THEN JNum(0) ELSE b
    IN  IF IsInt(x) /\ IsInt(y) THEN JNum(x.n - y.n) ELSE JNaN

\* x != null
NotNullish(v) == v.type \notin {"undefined", "null"}

\* the body made of the caller's entry: the entry itself when it is a plain
\* object, { value: entry } otherwise; copy = FALSE: it is the caller's object
BodyOf(entry) ==
    IF ~Falsy(entry) /\ entry.type = "object" /\ "o" \in DOMAIN entry
    THEN [of |-> entry, wrapped |-> FALSE, copy |-> FALSE]
    ELSE [of |-> entry, wrapped |-> TRUE, copy |-> FALSE]

\* ctx.clock is always the Worker's clock, a function; `at` is what the call
\* clock() returned.  `id` is the identity of the new record object.
makeRecord(entry, ctx, at, copies, id) ==
    LET keys == {"at"}
             \cup (IF NotNullish(ctx.source) THEN {"source"} ELSE {})
             \cup (IF NotNullish(ctx.level)  THEN {"level"}  ELSE {})
             \cup (IF NotNullish(ctx.event)  THEN {"event"}  ELSE {})
             \cup (IF NotNullish(ctx.trace)  THEN {"trace"}  ELSE {})
             \cup (IF NotNullish(ctx.lastAt) THEN {"lastAt", "delta"} ELSE {})
        header == [k \in keys |->
                     CASE k = "at"     -> at
                       [] k = "source" -> ctx.source
                       [] k = "level"  -> ctx.level
                       [] k = "event"  -> ctx.event
                       [] k = "trace"  -> ctx.trace
                       [] k = "lastAt" -> ctx.lastAt
                       [] k = "delta"  -> Minus(at, ctx.lastAt)]
        body0  == BodyOf(entry)
        body   == IF ctx.clone THEN cloneBestEffort(body0, copies) ELSE body0
    IN  [id |-> id, header |-> header, body |-> body]

\* (variant: a level that is not known needs the policy ALL)
levelToConsoleLevelUnknownAll(level) ==
    LET lv == IF Falsy(level) THEN "log"
              ELSE IF level.type = "string" THEN ToLowerCase(level.s)
              ELSE "other"
    IN  IF lv = "error" THEN ERROR
        ELSE IF lv = "warn" \/ lv = "warning" THEN WARN
        ELSE IF lv = "info" THEN INFO
        ELSE IF lv = "log" THEN LOG
        ELSE ALL

levelToConsoleLevel(level) ==
    LET lv == IF Falsy(level) THEN "log"
              ELSE IF level.type = "string" THEN ToLowerCase(level.s)
              ELSE "other"
    IN  IF lv = "error" THEN ERROR
        ELSE IF lv = "warn" \/ lv = "warning" THEN WARN
        ELSE IF lv = "info" THEN INFO
        ELSE LOG

\* (variant: the policy has to exceed the level's ordinal)
shouldPrintStrict(record, consolePolicy) ==
    LET policy == _normalizeConsoleLevel(consolePolicy)
        level  == IF "level" \in DOMAIN record.header THEN record.header.level ELSE JUndef
    IN  IF policy = OFF THEN FALSE
        ELSE IF policy = ALL THEN TRUE
        ELSE policy > levelToConsoleLevel(level)

\* shouldPrint(record, { console: consolePolicy }): the key is always present
shouldPrint(record, consolePolicy) ==
    LET policy == _normalizeConsoleLevel(consolePolicy)
        level  == IF "level" \in DOMAIN record.header THEN record.header.level ELSE JUndef
    IN  IF policy = OFF THEN FALSE
        ELSE IF policy = ALL THEN TRUE
        ELSE policy >= levelToConsoleLevel(level)

\* ------------------------------------------------------------------------
\* Worker.js: JS objects and arrays
\* ------------------------------------------------------------------------
\* obj.key, undefined when the key is absent
Prop(obj, key) == IF key \in DOMAIN obj THEN obj[key] ELSE JUndef

\* the plain objects {} the Worker creates itself
EmptyObj == JObj([k \in {} |-> JUndef])

\* arr[i] = v, i counted from 0: writing past the end leaves empty slots
ArraySet(arr, i, v) ==
    IF i < Len(arr) THEN [arr EXCEPT ![i + 1] = v]
    ELSE arr \o [k \in 1..(i - Len(arr)) |-> Hole] \o <<v>>

\* arr.slice(from), arr.slice(from, to), from and to counted from 0
Slice(arr, from, to) ==
    LET lo == IF from > Len(arr) THEN Len(arr) ELSE from
        hi == IF to > Len(arr) THEN Len(arr) ELSE to
    IN  IF hi <= lo THEN <<>> ELSE SubSeq(arr, lo + 1, hi)

\* String(value) of a name
String(v) ==
    IF v.type = "string" THEN v.s
    ELSE IF IsInt(v) THEN
        CASE v.n = 0 -> "0" [] v.n = 1 -> "1" [] v.n = 2 -> "2" [] OTHER -> "n"
    ELSE IF v = JFrac THEN "1.5"
    ELSE IF v.type = "boolean" THEN "true"
    ELSE "[object Object]"

\* ------------------------------------------------------------------------
\* Worker.js: the Worker
\* ------------------------------------------------------------------------
\* (variant: every object, arrays included, is kept)
_resolveWorkspaceAnyObject(value) ==
    IF ~Falsy(value) /\ value.type = "object" THEN value ELSE EmptyObj

_resolveWorkspace(value) ==
    IF ~Falsy(value) /\ value.type = "object" /\ "arr" \notin DOMAIN value
    THEN value ELSE EmptyObj

\* lib.func.get(value) of the embedding application: it knows one name
LibFuncGet(value) ==
    IF value = JStr("app.hook") THEN JFn("app.hook") ELSE JUndef

\* new Worker(opts).  The result is Throws when a normalizer throws.
Constructor(opts) ==
    LET max     == _normalizeLogMax(Prop(opts, "max"))
        onEvent == _getFunction(Prop(opts, "onEvent"), LibFuncGet(Prop(opts, "onEvent")))
        onPrint == _getFunction(Prop(opts, "onPrint"), LibFuncGet(Prop(opts, "onPrint")))
        clock   == _getClock(Prop(opts, "clock"))
    IN  IF ~max.ok \/ ~onEvent.ok \/ ~onPrint.ok \/ ~clock.ok THEN Throws
        ELSE Ok([name          |-> IF Falsy(Prop(opts, "name")) THEN "default"
                                   ELSE String(Prop(opts, "name")),
                 max           |-> max.val,
                 enabled       |-> Prop(opts, "enabled") # JBool(FALSE),
                 console       |-> _normalizeConsoleLevel(Prop(opts, "console")),
                 onEvent       |-> onEvent.val,
                 onPrint       |-> onPrint.val,
                 clock         |-> clock.val,
                 clone         |-> Prop(opts, "clone") = JBool(TRUE),
                 userWorkspace |-> IF "workspace" \in DOMAIN opts
                                   THEN _resolveWorkspace(opts.workspace)
                                   ELSE EmptyObj,
                 _events       |-> <<>>,
                 _cursor       |-> 0,
                 _count        |-> 0,
                 _lastAt       |-> JNum(0)])

setConsoleLevel(w, value) ==
    [w EXCEPT !.console = _normalizeConsoleLevel(value)]

\* (variant: truncation re-bases the accepted count on what is retained)
truncateResetsCount(w) ==
    IF w.max = 0 THEN w
    ELSE IF Len(w._events) <= w.max THEN w
    ELSE LET kept == Slice(w._events, Len(w._events) - w.max, Len(w._events))
         IN  [w EXCEPT !._events = kept,
                       !._cursor = Len(kept) % w.max,
                       !._count = Len(kept)]

truncate(w) ==
    IF w.max = 0 THEN w
    ELSE IF Len(w._events) <= w.max THEN w
    ELSE LET kept == Slice(w._events, Len(w._events) - w.max, Len(w._events))
         IN  [w EXCEPT !._events = kept,
                       !._cursor = Len(kept) % w.max]

\* the Worker after the call and whether the call threw
setLogMax(w, value) ==
    LET max == _normalizeLogMax(value)
    IN  IF ~max.ok THEN [w |-> w, threw |-> TRUE]
        ELSE [w |-> truncate([w EXCEPT !.max = max.val]), threw |-> FALSE]

setEnabled(w, on) ==
    [w EXCEPT !.enabled = ~Falsy(on)]

\* (variant: clear also forgets the last accepted timestamp)
clearResetsLastAt(w) ==
    [w EXCEPT !._events = <<>>, !._cursor = 0, !._count = 0, !._lastAt = JNum(0)]

\* (variant: clear keeps the accepted count)
clearKeepsCount(w) ==
    [w EXCEPT !._events = <<>>, !._cursor = 0]

clear(w) ==
    [w EXCEPT !._events = <<>>, !._cursor = 0, !._count = 0]

stats(w) ==
    [name    |-> w.name,
     enabled |-> w.enabled,
     max     |-> w.max,
     size    |-> Len(w._events),
     count   |-> w._count,
     ring    |-> w.max > 0]

\* (variant: unshift instead of push)
_pushUnlimitedFront(w, record) ==
    [w EXCEPT !._events = <<record>> \o w._events]

\* (variant: the record is appended twice)
_pushUnlimitedTwice(w, record) ==
    [w EXCEPT !._events = Append(Append(w._events, record), record)]

_pushUnlimited(w, record) ==
    [w EXCEPT !._events = Append(w._events, record)]

\* the Worker after the call and whether the invariant check threw
_pushRing(w, record) ==
    IF w.max <= 0 THEN [w |-> w, threw |-> TRUE]
    ELSE IF Len(w._events) < w.max
    THEN [w |-> [w EXCEPT !._events = Append(w._events, record),
                          !._cursor = (Len(w._events) + 1) % w.max],
          threw |-> FALSE]
    ELSE [w |-> [w EXCEPT !._events = ArraySet(w._events, w._cursor, record),
                          !._cursor = (w._cursor + 1) % w.max],
          threw |-> FALSE]

\* What the environment does during one call of emit: `id` is the identity of
\* the record object makeRecord creates, `at` what clock() returns (or
\* clockThrows), hookThrows / printThrows whether the onEvent hook and the
\* printer throw when called, copies whether cloning yields a copy.
\*
\* A call's `steps` are the calls it makes to caller code, in order; an
\* onEvent step carries what the hook can observe of the Worker then.
\* (variant: the hook called without try/catch)
_dispatchOnEventUncaught(w, record, env) ==
    IF Falsy(w.onEvent) THEN [steps |-> <<>>, threw |-> FALSE]
    ELSE [steps |-> <<[step      |-> "onEvent",
                       fn        |-> w.onEvent,
                       record    |-> record,
                       size      |-> stats(w).size,
                       count     |-> stats(w).count,
                       retained  |-> \E i \in 1..Len(w._events) : w._events[i] = record,
                       workspace |-> w.userWorkspace,
                       fnThrew   |-> env.hookThrows]>>,
          threw |-> env.hookThrows]

_dispatchOnEvent(w, record, env) ==
    IF Falsy(w.onEvent) THEN [steps |-> <<>>, threw |-> FALSE]
    ELSE [steps |-> <<[step      |-> "onEvent",
                       fn        |-> w.onEvent,
                       record    |-> record,
                       size      |-> stats(w).size,
                       count     |-> stats(w).count,
                       retained  |-> \E i \in 1..Len(w._events) : w._events[i] = record,
                       workspace |-> w.userWorkspace,
                       fnThrew   |-> env.hookThrows]>>,
          \* try { fn(...) } catch { swallow }
          threw |-> FALSE]

\* (variant: the hook dispatched before the record is stored)
_pushHookFirst(w, record, env) ==
    IF ~w.enabled THEN [w |-> w, stored |-> JNull, steps |-> <<>>, threw |-> FALSE]
    ELSE LET hook    == _dispatchOnEvent(w, record, env)
             counted == [w EXCEPT !._count = w._count + 1]
             w2      == IF counted.max = 0 THEN _pushUnlimited(counted, record)
                        ELSE _pushRing(counted, record).w
         IN  [w |-> w2, stored |-> record, steps |-> hook.steps, threw |-> hook.threw]

\* (variant: the hook is dispatched before and after the record is stored)
_pushHookTwice(w, record, env) ==
    IF ~w.enabled THEN [w |-> w, stored |-> JNull, steps |-> <<>>, threw |-> FALSE]
    ELSE LET counted == [w EXCEPT !._count = w._count + 1]
             w2      == IF counted.max = 0 THEN _pushUnlimited(counted, record)
                        ELSE _pushRing(counted, record).w
             hook    == _dispatchOnEvent(w2, record, env)
         IN  [w |-> w2, stored |-> record, steps |-> hook.steps \o hook.steps,
              threw |-> hook.threw]

\* the Worker after the call, the stored record (JNull when dropped), the
\* calls made and whether the call threw
_push(w, record, env) ==
    IF ~w.enabled THEN [w |-> w, stored |-> JNull, steps |-> <<>>, threw |-> FALSE]
    ELSE LET counted == [w EXCEPT !._count = w._count + 1]
             ring    == _pushRing(counted, record)
             w2      == IF counted.max = 0 THEN _pushUnlimited(counted, record)
                        ELSE ring.w
             pthrew  == counted.max # 0 /\ ring.threw
             hook    == _dispatchOnEvent(w2, record, env)
         IN  IF pthrew
             THEN [w |-> w2, stored |-> JNull, steps |-> <<>>, threw |-> TRUE]
             ELSE [w |-> w2, stored |-> record, steps |-> hook.steps,
                   threw |-> hook.threw]

PrintRecord == JFn("utils.printRecord")

\* (variant: the printer called without try/catch)
_printUncaught(w, stored, opts, env) ==
    LET doPrint       == Prop(opts, "print") # JBool(FALSE)
        consolePolicy == IF Prop(opts, "console") # JUndef THEN opts.console
                         ELSE JNum(w.console)
        printer       == IF ~Falsy(w.onPrint) THEN w.onPrint ELSE PrintRecord
    IN  IF doPrint /\ shouldPrint(stored, consolePolicy)
        THEN [steps |-> <<[step      |-> "print",
                           fn        |-> printer,
                           record    |-> stored,
                           levelNum  |-> levelToConsoleLevel(stored.header.level),
                           policy    |-> _normalizeConsoleLevel(consolePolicy),
                           workspace |-> w.userWorkspace,
                           fnThrew   |-> env.printThrows]>>,
              threw |-> env.printThrows]
        ELSE [steps |-> <<>>, threw |-> FALSE]

\* the console printing of emit: the call made to the printer, if any, and
\* whether this part of emit threw
_print(w, stored, opts, env) ==
    LET doPrint       == Prop(opts, "print") # JBool(FALSE)
        consolePolicy == IF Prop(opts, "console") # JUndef THEN opts.console
                         ELSE JNum(w.console)
        printer       == IF ~Falsy(w.onPrint) THEN w.onPrint ELSE PrintRecord
    IN  IF doPrint /\ shouldPrint(stored, consolePolicy)
        THEN [steps |-> <<[step      |-> "print",
                           fn        |-> printer,
                           record    |-> stored,
                           levelNum  |-> levelToConsoleLevel(stored.header.level),
                           policy    |-> _normalizeConsoleLevel(consolePolicy),
                           workspace |-> w.userWorkspace,
                           fnThrew   |-> env.printThrows]>>,
              \* try { printer(...) } catch { }
              threw |-> FALSE]
        ELSE [steps |-> <<>>, threw |-> FALSE]

\* (variant: an explicit clone: false does not override the Worker default)
effectiveCloneOr(w, opts) ==
    Prop(opts, "clone") = JBool(TRUE) \/ w.clone = TRUE

\* the clone flag emit passes to makeRecord
effectiveClone(w, opts) ==
    IF "clone" \in DOMAIN opts
    THEN opts.clone = JBool(TRUE)
    ELSE w.clone = TRUE

\* emit once the enabled gate is passed
emitEnabled(w, data, opts, env) ==
    IF env.clockThrows
    THEN [w |-> w, ret |-> JNull, threw |-> TRUE, steps |-> <<[step |-> "clock"]>>]
    ELSE
    LET level  == IF NotNullish(Prop(opts, "level")) THEN opts.level ELSE JStr("log")
        record == makeRecord(data,
                             [clock  |-> w.clock,
                              source |-> JStr(w.name),
                              level  |-> level,
                              event  |-> Prop(opts, "event"),
                              trace  |-> Prop(opts, "trace"),
                              lastAt |-> w._lastAt,
                              clone  |-> effectiveClone(w, opts)],
                             env.at, env.copies, env.id)
        w1     == [w EXCEPT !._lastAt = record.header.at]
        pushed == _push(w1, record, env)
        w2     == pushed.w
        clk    == <<[step |-> "clock"]>>
    IN  IF pushed.threw
        THEN [w |-> w2, ret |-> JNull, threw |-> TRUE, steps |-> clk \o pushed.steps]
        ELSE IF pushed.stored = JNull
        THEN [w |-> w2, ret |-> JNull, threw |-> FALSE, steps |-> clk \o pushed.steps]
        ELSE
        LET printed == _print(w2, pushed.stored, opts, env)
        IN  [w |-> w2, ret |-> pushed.stored, threw |-> printed.threw,
             steps |-> clk \o pushed.steps \o printed.steps]

\* (variant: without the enabled gate of emit)
emitUngated(w, data, opts, env) == emitEnabled(w, data, opts, env)

emit(w, data, opts, env) ==
    IF ~w.enabled THEN [w |-> w, ret |-> JNull, threw |-> FALSE, steps |-> <<>>]
    ELSE emitEnabled(w, data, opts, env)

\* Object.assign({}, o, { level }) for the log/info/warn/error wrappers
WithLevel(opts, lv) ==
    [k \in DOMAIN opts \cup {"level"} |-> IF k = "level" THEN JStr(lv) ELSE opts[k]]

log(w, data, opts, env)   == emit(w, data, WithLevel(opts, "log"), env)
info(w, data, opts, env)  == emit(w, data, WithLevel(opts, "info"), env)
warn(w, data, opts, env)  == emit(w, data, WithLevel(opts, "warn"), env)
error(w, data, opts, env) == emit(w, data, WithLevel(opts, "error"), env)

\* the keys configure looks for, in the order it applies them
ConfigKeys == <<"enabled", "max", "console", "onEvent", "onPrint", "clock", "workspace">>

\* (variant: a block runs when patch[key] is truthy)
configureKeyTruthy(w, p, key) ==
    IF Falsy(Prop(p, key)) THEN [w |-> w, threw |-> FALSE]
    ELSE CASE key = "enabled" ->
                [w |-> [w EXCEPT !.enabled = ~Falsy(p.enabled)], threw |-> FALSE]
           [] key = "max" ->
                setLogMax(w, p.max)
           [] key = "console" ->
                [w |-> setConsoleLevel(w, p.console), threw |-> FALSE]
           [] key = "onEvent" ->
                LET fn == _getFunction(p.onEvent, LibFuncGet(p.onEvent))
                IN  IF fn.ok THEN [w |-> [w EXCEPT !.onEvent = fn.val], threw |-> FALSE]
                    ELSE [w |-> w, threw |-> TRUE]
           [] key = "onPrint" ->
                LET fn == _getFunction(p.onPrint, LibFuncGet(p.onPrint))
                IN  IF fn.ok THEN [w |-> [w EXCEPT !.onPrint = fn.val], threw |-> FALSE]
                    ELSE [w |-> w, threw |-> TRUE]
           [] key = "clock" ->
                LET fn == _getClock(p.clock)
                IN  IF fn.ok THEN [w |-> [w EXCEPT !.clock = fn.val], threw |-> FALSE]
                    ELSE [w |-> w, threw |-> TRUE]
           [] key = "workspace" ->
                [w |-> [w EXCEPT !.userWorkspace = _resolveWorkspace(p.workspace)],
                 threw |-> FALSE]

\* one `if (key in patch)` block of configure: the Worker after it and
\* whether it threw
configureKey(w, p, key) ==
    IF key \notin DOMAIN p THEN [w |-> w, threw |-> FALSE]
    ELSE CASE key = "enabled" ->
                [w |-> [w EXCEPT !.enabled = ~Falsy(p.enabled)], threw |-> FALSE]
           [] key = "max" ->
                setLogMax(w, p.max)
           [] key = "console" ->
                [w |-> setConsoleLevel(w, p.console), threw |-> FALSE]
           [] key = "onEvent" ->
                LET fn == _getFunction(p.onEvent, LibFuncGet(p.onEvent))
                IN  IF fn.ok THEN [w |-> [w EXCEPT !.onEvent = fn.val], threw |-> FALSE]
                    ELSE [w |-> w, threw |-> TRUE]
           [] key = "onPrint" ->
                LET fn == _getFunction(p.onPrint, LibFuncGet(p.onPrint))
                IN  IF fn.ok THEN [w |-> [w EXCEPT !.onPrint = fn.val], threw |-> FALSE]
                    ELSE [w |-> w, threw |-> TRUE]
           [] key = "clock" ->
                LET fn == _getClock(p.clock)
                IN  IF fn.ok THEN [w |-> [w EXCEPT !.clock = fn.val], threw |-> FALSE]
                    ELSE [w |-> w, threw |-> TRUE]
           [] key = "workspace" ->
                [w |-> [w EXCEPT !.userWorkspace = _resolveWorkspace(p.workspace)],
                 threw |-> FALSE]

\* the blocks of configure from the i-th on; a throw ends the call and keeps
\* what the earlier blocks assigned
RECURSIVE configureFrom(_, _, _)
configureFrom(w, p, i) ==
    IF i > Len(ConfigKeys) THEN [w |-> w, threw |-> FALSE]
    ELSE LET r == configureKey(w, p, ConfigKeys[i])
         IN  IF r.threw THEN r ELSE configureFrom(r.w, p, i + 1)

\* (variant: a patch that is not an object is taken as {})
configureLenient(w, in_patch) ==
    LET patch == IF in_patch = JUndef THEN EmptyObj ELSE in_patch
    IN  IF Falsy(patch) \/ patch.type # "object" \/ "o" \notin DOMAIN patch
        THEN [w |-> w, threw |-> FALSE]
        ELSE configureFrom(w, patch.o, 1)

\* patch is a JS value; an object patch is JObj(p) with p its keys and
\* values; undefined takes the default {} of the parameter, and an array has
\* none of the keys
configure(w, in_patch) ==
    LET patch == IF in_patch = JUndef THEN EmptyObj ELSE in_patch
    IN  IF Falsy(patch) \/ patch.type # "object" THEN [w |-> w, threw |-> TRUE]
        ELSE IF "o" \notin DOMAIN patch THEN [w |-> w, threw |-> FALSE]
        ELSE configureFrom(w, patch.o, 1)

\* ------------------------------------------------------------------------
\* Worker.get
\* ------------------------------------------------------------------------
\* Number(value)
ToNumber(v) ==
    CASE v.type = "number"    -> v
      [] v.type = "string"    -> StrToNum(v.s)
      [] v.type = "null"      -> JNum(0)
      [] v.type = "boolean"   -> JNum(IF v.b THEN 1 ELSE 0)
      [] OTHER                -> JNaN

\* Number.isFinite(value)
IsFinite(v) == v.type = "number" /\ v # JNaN /\ v # JInf

\* a < b on finite JS numbers (the one non-integer of the model is 1.5)
Less(a, b) ==
    IF IsInt(a) /\ IsInt(b) THEN a.n < b.n
    ELSE IF IsInt(a) THEN a.n <= 1
    ELSE IF IsInt(b) THEN 2 <= b.n
    ELSE FALSE

\* key.startsWith("header.") / key.startsWith("body."), and the rest of the
\* key after the prefix, for the filter keys of the model
KeyPrefix(key) ==
    CASE key \in {"header.level", "header.at", "header.code"} -> "header."
      [] key \in {"body.code", "body.level", "body.value"}     -> "body."
      [] OTHER                                                   -> ""

KeyRest(key) ==
    CASE key \in {"header.level", "body.level"} -> "level"
      [] key \in {"header.code", "body.code"}   -> "code"
      [] key = "header.at"                      -> "at"
      [] key = "body.value"                     -> "value"
      [] OTHER                                  -> key

KNOWN_HEADER == {"at", "source", "level", "event", "trace"}

\* record.body[prop]
BodyProp(body, prop) ==
    IF body.wrapped THEN (IF prop = "value" THEN body.of ELSE JUndef)
    ELSE Prop(body.of.o, prop)

\* the predicate functions callers pass in the model: what fn(value, rec)
\* returns, or "throws"
CallPredicate(fn, value, rec) ==
    CASE fn = JFn("v => v >= 2")  -> IF IsInt(value) /\ value.n >= 2 THEN "true" ELSE "false"
      [] fn = JFn("() => { throw }") -> "throws"
      [] fn = JFn("(v, rec) => rec.header.level === 'warn'")
            -> IF Prop(rec.header, "level") = JStr("warn") THEN "true" ELSE "false"
      [] OTHER                     -> "true"

\* (variant: a bare key always targets the body)
PredicateBareToBody(rawKey, expected, rec) ==
    LET where == IF KeyPrefix(rawKey) = "header." THEN "header" ELSE "body"
        prop  == IF KeyPrefix(rawKey) # "" THEN KeyRest(rawKey) ELSE rawKey
        value == IF where = "header" THEN Prop(rec.header, prop)
                 ELSE BodyProp(rec.body, prop)
    IN  IF expected.type = "function"
        THEN CallPredicate(expected, value, rec) = "true"
        ELSE value = expected /\ value # JNaN

\* does rec pass the predicate built for the filter entry rawKey: expected
Predicate(rawKey, expected, rec) ==
    LET where == IF KeyPrefix(rawKey) = "header." THEN "header"
                 ELSE IF KeyPrefix(rawKey) = "body." THEN "body"
                 ELSE IF rawKey \in KNOWN_HEADER THEN "header" ELSE "body"
        prop  == IF KeyPrefix(rawKey) # "" THEN KeyRest(rawKey) ELSE rawKey
        value == IF where = "header" THEN Prop(rec.header, prop)
                 ELSE BodyProp(rec.body, prop)
    IN  IF expected.type = "function"
        THEN CallPredicate(expected, value, rec) = "true"
        ELSE value = expected /\ value # JNaN

\* list.filter(keep), keeping the order
RECURSIVE FilterSeq(_, _, _)
FilterSeq(list, filter, since) ==
    IF list = <<>> THEN <<>>
    ELSE LET rec  == Head(list)
             keep == /\ rec # Hole
                     /\ (since # JNull =>
                            /\ IsFinite(rec.header.at)
                            /\ ~Less(rec.header.at, since))
                     /\ \A k \in DOMAIN filter \ {"limit", "since"} :
                            filter[k] # JUndef => Predicate(k, filter[k], rec)
         IN  (IF keep THEN <<rec>> ELSE <<>>) \o FilterSeq(Tail(list), filter, since)

\* (variant: the storage array as it is, without reconstructing the order)
MaterializeRaw(w) == w._events

\* (variant: the tail runs one slot too far)
MaterializeOverlap(w) ==
    IF w.max > 0 /\ Len(w._events) = w.max
    THEN Slice(w._events, w._cursor, Len(w._events)) \o Slice(w._events, 0, w._cursor + 1)
    ELSE w._events

\* the chronological list get() filters
Materialize(w) ==
    IF w.max > 0 /\ Len(w._events) = w.max
    THEN Slice(w._events, w._cursor, Len(w._events)) \o Slice(w._events, 0, w._cursor)
    ELSE w._events

\* get(in_filter): the records returned, or Throws
get(w, in_filter) ==
    LET filter == IF ~Falsy(in_filter) /\ in_filter.type = "object" /\ "o" \in DOMAIN in_filter
                  THEN in_filter.o ELSE EmptyObj.o
        n      == ToNumber(Prop(filter, "limit"))
        limit  == IF "limit" \in DOMAIN filter THEN n ELSE JNull
        since  == IF IsFinite(Prop(filter, "since")) THEN filter.since ELSE JNull
        out    == FilterSeq(Materialize(w), filter, since)
    IN  IF "limit" \in DOMAIN filter /\ (~IsFinite(n) \/ ~IsInt(n) \/ n.n < 0) THEN Throws
        ELSE IF limit = JNum(0) THEN Ok(<<>>)
        ELSE IF limit # JNull /\ limit.n > 0 /\ Len(out) > limit.n
             THEN Ok(Slice(out, Len(out) - limit.n, Len(out)))
             ELSE Ok(out)

\* (variant: the filtered list is written back to the storage)
getStoring(w, in_filter) ==
    CHOOSE out \in { [w   |-> IF r.ok THEN [w EXCEPT !._events = r.val, !._cursor = 0] ELSE w,
                      ret |-> r] : r \in { get(w, in_filter) } } : TRUE

\* the call get(in_filter) on the Worker: the Worker after it, which no
\* statement of get assigns to, and what the call returned
getOn(w, in_filter) == [w |-> w, ret |-> get(w, in_filter)]

\* ------------------------------------------------------------------------
\* The state machine: one Worker and its caller
\* ------------------------------------------------------------------------
\* worker       the Worker object
\* hist         every record the Worker accepted since construction, in
\*              emission order
\* last         the last call made on the Worker: which method, whether it
\*              threw and, for emit and get, its arguments, what it returned
\*              and the calls it made to caller code
\* limitChanged whether worker.max was changed after construction
\* cleared      whether clear() was called
Hook    == JFn("hook")
Payload == JObj([code |-> JNum(2)])

\* the options a Worker is constructed with here
InitOpts ==
    { [name |-> JStr("net"), max |-> JNum(m), enabled |-> JBool(en),
       console |-> JStr("warn"), onEvent |-> Hook] :
         m \in 0..MaxLimit, en \in BOOLEAN }

\* the per-call options of emit
EmitOpts ==
    { [level |-> JStr("error")],
      [level |-> JStr("error"), print |-> JBool(FALSE)],
      [level |-> JStr("error"), console |-> JNum(OFF)] }

\* the values passed to setLogMax
LimitValues ==
    { JNum(m) : m \in 0..MaxLimit } \cup { JNum(0 - 1), JStr("0") }

\* what the environment may do during an emit: the clock returns one of
\* times; the hook and the printer may throw
EmitEnvs(times, throwing) ==
    [id : {Len(hist) + 1}, at : { JNum(t) : t \in times }, clockThrows : {FALSE},
     hookThrows : throwing, printThrows : throwing, copies : {TRUE}]

Init ==
    /\ \E opts \in InitOpts : worker = Constructor(opts).val
    /\ hist = <<>>
    /\ last = [op |-> "new"]
    /\ limitChanged = FALSE
    /\ cleared = FALSE
    /\ manager = NoManager

\* worker[method](data, opts) for emit and its level wrappers
Call(w, method, data, opts, env) ==
    CASE method = "log"   -> log(w, data, opts, env)
      [] method = "info"  -> info(w, data, opts, env)
      [] method = "warn"  -> warn(w, data, opts, env)
      [] method = "error" -> error(w, data, opts, env)
      [] OTHER            -> emit(w, data, opts, env)

EmitWith(cap, methods, optsSet, envs) ==
    /\ Len(hist) < cap
    /\ \E method \in methods, data \in {Payload}, opts \in optsSet, env \in envs :
         \E r \in { Call(worker, method, data, opts, env) } :
             /\ worker' = r.w
             /\ hist' = IF r.ret # JNull THEN Append(hist, r.ret) ELSE hist
             /\ last' = [op |-> "emit", method |-> method, data |-> data, opts |-> opts,
                         env |-> env, ret |-> r.ret, threw |-> r.threw, steps |-> r.steps]
    /\ UNCHANGED <<manager, limitChanged, cleared>>

Emit == EmitWith(MaxEmits, {"emit"}, {[level |-> JStr("error")]}, EmitEnvs({1}, {FALSE}))

Clear ==
    /\ worker' = clear(worker)
    /\ last' = [op |-> "clear"]
    /\ cleared' = TRUE
    /\ UNCHANGED <<manager, hist, limitChanged>>

SetLogMax ==
    /\ \E value \in LimitValues :
         LET r == setLogMax(worker, value)
         IN  /\ worker' = r.w
             /\ last' = [op |-> "setLogMax", threw |-> r.threw]
             /\ limitChanged' = (limitChanged \/ r.w.max # worker.max)
    /\ UNCHANGED <<manager, hist, cleared>>

SetEnabled ==
    /\ \E on \in BOOLEAN :
         /\ worker' = setEnabled(worker, JBool(on))
         /\ last' = [op |-> "setEnabled"]
    /\ UNCHANGED <<manager, hist, limitChanged, cleared>>

Get ==
    /\ \E filter \in {JUndef} :
         /\ last' = [op |-> "get", filter |-> filter, ret |-> get(worker, filter)]
    /\ UNCHANGED <<manager, worker, hist, limitChanged, cleared>>

\* the patches passed to configure
ConfigPatches ==
    { JObj([max |-> v]) : v \in LimitValues } \cup { EmptyObj, JNull }

Configure ==
    /\ \E patch \in ConfigPatches :
         LET r == configure(worker, patch)
         IN  /\ worker' = r.w
             /\ last' = [op |-> "configure", threw |-> r.threw]
             /\ limitChanged' = (limitChanged \/ r.w.max # worker.max)
    /\ UNCHANGED <<manager, hist, cleared>>

Next == Emit \/ Clear \/ SetLogMax \/ SetEnabled \/ Get \/ Configure

Spec == Init /\ [][Next]_vars

\* The same Worker with callers that use the per-call options and the level
\* wrappers, and with hooks and printers that may throw
EmitAny == EmitWith(MaxHookEmits, {"emit", "warn"}, EmitOpts, EmitEnvs({1}, BOOLEAN))

Printer == JFn("printer")

InitHooks ==
    /\ \E m \in {0, 2}, pr \in {JUndef, Printer} :
         worker = Constructor([name |-> JStr("net"), max |-> JNum(m),
                               console |-> JStr("warn"), onEvent |-> Hook,
                               onPrint |-> pr]).val
    /\ hist = <<>>
    /\ last = [op |-> "new"]
    /\ limitChanged = FALSE
    /\ cleared = FALSE
    /\ manager = NoManager

NextHooks == EmitAny \/ SetEnabled \/ Clear

SpecHooks == InitHooks /\ [][NextHooks]_vars

\* ------------------------------------------------------------------------
\* Properties
\* ------------------------------------------------------------------------
\* query({})
QueryAll(w) == get(w, EmptyObj)

\* the last k entries of a sequence
LastK(seq, k) == IF Len(seq) <= k THEN seq ELSE SubSeq(seq, Len(seq) - k + 1, Len(seq))

\* records in emission order: identities strictly increasing
InEmissionOrder(seq) ==
    \A i, j \in 1..Len(seq) : i < j => seq[i].id < seq[j].id

\* C1: a Worker constructed with limit k > 0, whose limit never changed and
\* that was never cleared, returns from query({}), once more than k records
\* were accepted, exactly the last k accepted records in emission order.
C1_RingKeepsLastK ==
    (~limitChanged /\ ~cleared /\ worker.max > 0 /\ Len(hist) > worker.max)
        => QueryAll(worker) = Ok(LastK(hist, worker.max))

\* the ring has wrapped more than once around a buffer of at least 2 slots
C1_Witness ==
    /\ ~limitChanged /\ ~cleared
    /\ worker.max = 2 /\ Len(hist) >= 5
    /\ QueryAll(worker).val = <<hist[Len(hist) - 1], hist[Len(hist)]>>

\* C2: whenever the limit is > 0, stats().size is at most the limit.
C2_SizeWithinLimit ==
    worker.max > 0 => stats(worker).size <= worker.max

\* C3: query({}) returns the retained records in emission order, oldest to
\* newest, in every reachable state.
C3_QueryChronological ==
    InEmissionOrder(QueryAll(worker).val)

\* C5: a Worker whose limit is 0 since construction and that was never
\* cleared returns from query({}) all accepted records in emission order, and
\* stats().size is their number.
C5_UnboundedKeepsAll ==
    (~limitChanged /\ ~cleared /\ worker.max = 0)
        => /\ QueryAll(worker) = Ok(hist)
           /\ stats(worker).size = Len(hist)

C5_Witness ==
    /\ ~limitChanged /\ ~cleared /\ worker.max = 0
    /\ Len(hist) >= 3
    /\ stats(worker).size = Len(hist)

\* the records a Worker retains, oldest emission first
RECURSIVE SortById(_)
SortById(recs) ==
    IF recs = {} THEN <<>>
    ELSE LET first == CHOOSE r \in recs : \A q \in recs : r.id <= q.id
         IN  <<first>> \o SortById(recs \ {first})

Retained(w) == { w._events[i] : i \in 1..Len(w._events) } \ {Hole}

\* C4: setLogMax(k) / configure({max: k}) with 0 < k < current size leaves
\* query({}) returning exactly the k most recently emitted of the records
\* retained before the call, in emission order.
C4_ShrinkKeepsMostRecent ==
    [][ ( /\ last'.op \in {"setLogMax", "configure"}
          /\ ~last'.threw
          /\ worker'.max > 0
          /\ worker'.max < Len(worker._events) )
        => QueryAll(worker') = Ok(LastK(SortById(Retained(worker)), worker'.max)) ]_vars

\* the steps of a call that are calls of the onEvent hook / of the printer
HookSteps(l)  == { i \in 1..Len(l.steps) : l.steps[i].step = "onEvent" }
PrintSteps(l) == { i \in 1..Len(l.steps) : l.steps[i].step = "print" }
HookThrew(l)  == \E i \in HookSteps(l) : l.steps[i].fnThrew
PrintThrew(l) == \E i \in PrintSteps(l) : l.steps[i].fnThrew

\* C6: an emit (or warn, ...) on a disabled Worker returns null, calls
\* neither the clock nor the hook nor the printer, and leaves the storage,
\* stats().size, stats().count and every other field of the Worker as they
\* were.
C6_DisabledEmitIsNoOp ==
    [][ (last'.op = "emit" /\ ~worker.enabled)
        => /\ last'.ret = JNull
           /\ ~last'.threw
           /\ last'.steps = <<>>
           /\ stats(worker').size = stats(worker).size
           /\ stats(worker').count = stats(worker).count
           /\ worker' = worker
           /\ hist' = hist ]_vars

\* an emit was dropped by a disabled Worker that holds records
C6_Witness ==
    /\ last.op = "emit" /\ ~worker.enabled
    /\ last.ret = JNull
    /\ Len(worker._events) > 0

\* the calls among `steps` that are of the given kind
StepsOf(steps, kind) == { steps[i] : i \in { j \in 1..Len(steps) : steps[j].step = kind } }

\* C7: when the onEvent hook throws, emit does not throw, returns the
\* record, which is retained, makes the same printer call as without the
\* throw, and leaves the Worker in the very state a non-throwing hook leaves.
C7_HookThrowSwallowed ==
    [][ (last'.op = "emit" /\ last'.env.hookThrows /\ worker.enabled)
        => LET quiet == Call(worker, last'.method, last'.data, last'.opts,
                             [last'.env EXCEPT !.hookThrows = FALSE])
           IN  /\ ~last'.threw
               /\ last'.ret # JNull
               /\ last'.ret \in Retained(worker')
               /\ last'.ret = quiet.ret
               /\ worker' = quiet.w
               /\ StepsOf(last'.steps, "print") = StepsOf(quiet.steps, "print") ]_vars

\* a hook threw during an emit that then printed
C7_Witness ==
    /\ last.op = "emit" /\ HookThrew(last)
    /\ PrintSteps(last) # {}
    /\ last.ret \in Retained(worker)

\* C8: when the printer (onPrint or the default printer) throws, emit does
\* not throw, returns the record, which is retained, and leaves the Worker in
\* the very state a non-throwing printer leaves.
C8_PrintThrowSwallowed ==
    [][ (last'.op = "emit" /\ last'.env.printThrows /\ worker.enabled)
        => LET quiet == Call(worker, last'.method, last'.data, last'.opts,
                             [last'.env EXCEPT !.printThrows = FALSE])
           IN  /\ ~last'.threw
               /\ last'.ret # JNull
               /\ last'.ret \in Retained(worker')
               /\ last'.ret = quiet.ret
               /\ worker' = quiet.w ]_vars

\* the print hook threw during an emit
C8_Witness ==
    /\ last.op = "emit" /\ PrintThrew(last)
    /\ \E i \in PrintSteps(last) : last.steps[i].fn = Printer
    /\ last.ret \in Retained(worker)

\* C9: in an accepted emit the clock is read first; the hook, when
\* installed, is called once, with the returned record already retained and
\* counted; the printer is called after the hook; the record is returned.
C9_StoreHookPrintOrder ==
    (last.op = "emit" /\ last.ret # JNull)
        => /\ ~Falsy(worker.onEvent) => Cardinality(HookSteps(last)) = 1
           /\ \A i \in HookSteps(last) :
                 /\ last.steps[i].record = last.ret
                 /\ last.steps[i].retained
                 /\ last.steps[i].count = stats(worker).count
                 /\ last.steps[i].size = stats(worker).size
           /\ \A i \in HookSteps(last), j \in PrintSteps(last) : i < j
           /\ \A j \in PrintSteps(last) : last.steps[j].record = last.ret
           /\ last.ret \in Retained(worker)

\* an accepted emit called the hook and then the printer
C9_Witness ==
    /\ last.op = "emit" /\ last.ret # JNull
    /\ HookSteps(last) # {} /\ PrintSteps(last) # {}
    /\ \E i \in HookSteps(last) : last.steps[i].retained /\ last.steps[i].count = 2

\* C10: a record carries header.lastAt and header.delta exactly when a
\* record was accepted before it by the same Worker, and lastAt is then the
\* header.at of that record.
C10_LastAtIffPrevious ==
    \A i \in 1..Len(hist) :
        /\ ("lastAt" \in DOMAIN hist[i].header) <=> (i > 1)
        /\ ("delta" \in DOMAIN hist[i].header) <=> (i > 1)
        /\ i > 1 => hist[i].header.lastAt = hist[i - 1].header.at

\* ------------------------------------------------------------------------
\* The same Worker with a caller-supplied clock that returns different
\* (not necessarily increasing) values
\* ------------------------------------------------------------------------
Clock == JFn("clock")
Times == {1, 3}

InitTimed ==
    /\ \E m \in {0, 2} :
         worker = Constructor([name |-> JStr("net"), max |-> JNum(m),
                               clock |-> Clock]).val
    /\ hist = <<>>
    /\ last = [op |-> "new"]
    /\ limitChanged = FALSE
    /\ cleared = FALSE
    /\ manager = NoManager

EmitTimed ==
    EmitWith(MaxTimedEmits, {"emit"}, {[level |-> JStr("log")]}, EmitEnvs(Times, {FALSE}))

NextTimed == EmitTimed \/ Clear \/ SetEnabled

SpecTimed == InitTimed /\ [][NextTimed]_vars

\* C11: a record that carries header.lastAt carries header.delta = header.at
\* - header.lastAt; and the first record accepted after a clear() has the
\* header.at of the record accepted before the clear as its lastAt.
C11_DeltaAndClearContinuity ==
    /\ \A i \in 1..Len(hist) :
          "lastAt" \in DOMAIN hist[i].header
             => /\ "delta" \in DOMAIN hist[i].header
                /\ hist[i].header.delta.n = hist[i].header.at.n - hist[i].header.lastAt.n
    /\ (cleared /\ worker._count = 1 /\ Len(hist) >= 2)
          => /\ "lastAt" \in DOMAIN hist[Len(hist)].header
             /\ hist[Len(hist)].header.lastAt = hist[Len(hist) - 1].header.at

\* the first record after a clear, with a non-zero delta against the record
\* accepted before the clear
C11_Witness ==
    /\ cleared /\ worker._count = 1 /\ Len(hist) >= 2
    /\ last.op = "emit" /\ last.ret = hist[Len(hist)]
    /\ hist[Len(hist) - 1].header.at = JNum(3)
    /\ last.ret.header.lastAt = JNum(3)
    /\ last.ret.header.delta = JNum(0 - 2)

\* C12: clear() empties storage (the unfiltered query returns [] and size is
\* 0), resets the ring cursor and the accepted count to 0, and leaves the
\* last accepted timestamp, the limit, the enabled flag, the console policy,
\* the hooks, the clock and the workspace as they were.
C12_ClearFrame ==
    [][last'.op = "clear"
         => /\ QueryAll(worker') = Ok(<<>>)
            /\ stats(worker').size = 0
            /\ worker'._cursor = 0
            /\ worker'._count = 0
            /\ worker'._lastAt = worker._lastAt
            /\ worker'.max = worker.max
            /\ worker'.enabled = worker.enabled
            /\ worker'.console = worker.console
            /\ worker'.onEvent = worker.onEvent
            /\ worker'.onPrint = worker.onPrint
            /\ worker'.clock = worker.clock
            /\ worker'.userWorkspace = worker.userWorkspace
            /\ worker'.name = worker.name
            /\ worker'.clone = worker.clone]_vars

\* a clear() of a ring that had wrapped: records were accepted, nothing is
\* retained, the last accepted timestamp is still there
C12_Witness ==
    /\ last.op = "clear"
    /\ Len(hist) >= 3 /\ worker.max = 2
    /\ worker._events = <<>> /\ worker._count = 0
    /\ worker._lastAt = hist[Len(hist)].header.at

\* C13: the accepted count grows by exactly 1 on an accepted emit and by 0 on
\* a dropped one; setLogMax, configure, setEnabled and get leave it alone;
\* clear() sets it to 0.  Hence, as long as nothing was cleared, it is the
\* number of records accepted since construction.
C13_CountAccounting ==
    [][/\ (last'.op = "emit" /\ last'.ret # JNull)
             => worker'._count = worker._count + 1
       /\ (last'.op = "emit" /\ last'.ret = JNull)
             => worker'._count = worker._count
       /\ last'.op \in {"setLogMax", "configure", "setEnabled", "get"}
             => worker'._count = worker._count
       /\ last'.op = "clear" => worker'._count = 0
       /\ ~cleared' => worker'._count = Len(hist')]_vars

\* the limit was changed on a wrapped ring and more records were accepted
\* than are retained
C13_Witness ==
    /\ last.op \in {"setLogMax", "configure"}
    /\ limitChanged /\ ~cleared
    /\ worker._count = 3
    /\ Len(worker._events) = 1

\* ------------------------------------------------------------------------
\* The Worker queried with limit and since filters, over records stamped by
\* a caller clock
\* ------------------------------------------------------------------------
QueryFilters ==
    { EmptyObj, JObj([since |-> JNum(2)]) }
      \cup { JObj([limit |-> l]) : l \in {JNum(0), JNum(1), JNum(2), JNum(0 - 1), JFrac} }
      \cup { JObj([since |-> JNum(2), limit |-> l]) : l \in {JNum(0), JNum(1)} }

InitQuery == InitTimed

EmitQuery ==
    EmitWith(MaxQueryEmits, {"emit"}, {[level |-> JStr("log")]}, EmitEnvs(Times, {FALSE}))

GetQuery ==
    /\ \E filter \in QueryFilters :
         /\ last' = [op |-> "get", filter |-> filter, ret |-> get(worker, filter)]
    /\ UNCHANGED <<manager, worker, hist, limitChanged, cleared>>

NextQuery == EmitQuery \/ GetQuery \/ SetLogMax \/ Clear

SpecQuery == InitQuery /\ [][NextQuery]_vars

\* the retained records that pass the since bound of a filter
Passing(w, f) ==
    { r \in Retained(w) : "since" \in DOMAIN f => r.header.at.n >= f.since.n }

\* C14: get({limit: 0}) returns []; a negative or non-integer limit throws;
\* a positive integer limit L returns the most recent min(L, m) of the m
\* records that pass the other filters, in emission order.
C14_LimitHandling ==
    (last.op = "get" /\ "limit" \in DOMAIN last.filter.o)
       => LET L == last.filter.o.limit
          IN  /\ L = JNum(0) => last.ret = Ok(<<>>)
              /\ (L = JFrac \/ (IsInt(L) /\ L.n < 0)) => last.ret = Throws
              /\ (IsInt(L) /\ L.n > 0)
                    => last.ret = Ok(LastK(SortById(Passing(worker, last.filter.o)), L.n))

\* C15: get({since: t}) returns exactly the retained records with header.at
\* >= t, in emission order; with a positive limit as well, the limit takes
\* the tail of that list.
C15_SinceThenLimit ==
    (last.op = "get" /\ "since" \in DOMAIN last.filter.o)
       => LET f      == last.filter.o
              passed == SortById(Passing(worker, f))
          IN  /\ "limit" \notin DOMAIN f => last.ret = Ok(passed)
              /\ ("limit" \in DOMAIN f /\ f.limit.n > 0)
                    => last.ret = Ok(LastK(passed, f.limit.n))
\* ------------------------------------------------------------------------
\* The Worker printing: stream console policies, per-call console overrides
\* and levels
\* ------------------------------------------------------------------------
Absent == [absent |-> TRUE]

\* the object with the keys of f whose value is not Absent
MkObj(f) == [k \in { x \in DOMAIN f : f[x] # Absent } |-> f[k]]

PrintLevels   == {Absent, JStr("error"), JStr("warn"), JStr("warning"), JStr("info"),
                  JStr("debug")}
PrintConsoles == {Absent, JUndef, JNull, JNum(0), JNum(1), JStr("warn"), JNum(3),
                  JStr("log"), JBool(TRUE), JNum(7)}
PrintFlags    == {Absent, JBool(FALSE), JBool(TRUE)}

PrintOpts ==
    { MkObj([level |-> l, console |-> c, print |-> p]) :
        l \in PrintLevels, c \in PrintConsoles, p \in PrintFlags }

InitPrint ==
    /\ worker = Constructor([name |-> JStr("net"), onPrint |-> Printer]).val
    /\ hist = <<>>
    /\ last = [op |-> "new"]
    /\ limitChanged = FALSE
    /\ cleared = FALSE
    /\ manager = NoManager

EmitPrint ==
    EmitWith(MaxPrintEmits, {"emit", "info"}, PrintOpts, EmitEnvs({1}, {FALSE}))

SetConsoleLevel ==
    /\ \E value \in PrintConsoles \ {Absent} :
         /\ worker' = setConsoleLevel(worker, value)
         /\ last' = [op |-> "setConsoleLevel"]
    /\ UNCHANGED <<manager, hist, limitChanged, cleared>>

NextPrint == EmitPrint \/ SetConsoleLevel

SpecPrint == InitPrint /\ [][NextPrint]_vars

\* the ordinal of a record level: error 1, warn/warning 2, info 3, other 4
LevelOrdinal(level) ==
    CASE level = JStr("error")                    -> 1
      [] level \in {JStr("warn"), JStr("warning")} -> 2
      [] level = JStr("info")                     -> 3
      [] OTHER                                    -> 4

Eligible(print, p, level) ==
    /\ print # JBool(FALSE)
    /\ p # OFF
    /\ (p = ALL \/ p >= LevelOrdinal(level))

Workspace == JObj([tag |-> JNum(1)])

ObjectPatches ==
    { EmptyObj,
      JObj([enabled |-> JBool(FALSE)]), JObj([enabled |-> JBool(TRUE)]),
      JObj([max |-> JNum(0)]), JObj([max |-> JNum(1)]),
      JObj([console |-> JBool(FALSE)]), JObj([console |-> JStr("info")]),
      JObj([onEvent |-> JNull]), JObj([onEvent |-> Hook]),
      JObj([onPrint |-> JNull]), JObj([onPrint |-> Printer]),
      JObj([clock |-> JNull]), JObj([clock |-> Clock]),
      JObj([workspace |-> JNull]), JObj([workspace |-> Workspace]),
      JObj([enabled |-> JNum(0), max |-> JNum(1)]),
      JObj([console |-> JNum(0), onEvent |-> JNull, workspace |-> JArr(<<>>)]),
      JObj([enabled |-> JBool(FALSE), max |-> JNum(0 - 1)]),
      JArr(<<>>), JUndef }

NonObjectPatches ==
    { JNull, JNum(5), JNum(0), JStr("max"), JStr(""), JBool(TRUE), JBool(FALSE) }

InitConfig ==
    /\ \E m \in {0, 2} :
         worker = Constructor([name |-> JStr("net"), max |-> JNum(m), console |-> JStr("warn"),
                               onEvent |-> Hook, clone |-> JBool(TRUE),
                               workspace |-> Workspace]).val
    /\ hist = <<>>
    /\ last = [op |-> "new"]
    /\ limitChanged = FALSE
    /\ cleared = FALSE
    /\ manager = NoManager

EmitConfig ==
    EmitWith(MaxConfigEmits, {"emit"}, {[level |-> JStr("error")]}, EmitEnvs({1}, {FALSE}))

ConfigurePolicy ==
    /\ \E patch \in ObjectPatches \cup NonObjectPatches :
         LET r == configure(worker, patch)
         IN  /\ worker' = r.w
             /\ last' = [op |-> "configure", threw |-> r.threw, typeof |-> patch.type,
                         empty |-> (patch = EmptyObj)]
             /\ limitChanged' = (limitChanged \/ r.w.max # worker.max)
    /\ UNCHANGED <<manager, hist, cleared>>

NextConfig == EmitConfig \/ ConfigurePolicy

SpecConfig == InitConfig /\ [][NextConfig]_vars

\* what configure(patch) may and must do to a Worker w, giving r.w
ConfigureFrame(w, p, r) ==
    /\ "enabled" \notin DOMAIN p => r.w.enabled = w.enabled
    /\ "max" \notin DOMAIN p
          => r.w.max = w.max /\ r.w._events = w._events /\ r.w._cursor = w._cursor
    /\ "console" \notin DOMAIN p => r.w.console = w.console
    /\ "onEvent" \notin DOMAIN p => r.w.onEvent = w.onEvent
    /\ "onPrint" \notin DOMAIN p => r.w.onPrint = w.onPrint
    /\ "clock" \notin DOMAIN p => r.w.clock = w.clock
    /\ "workspace" \notin DOMAIN p => r.w.userWorkspace = w.userWorkspace
    /\ ~r.threw =>
         /\ "enabled" \in DOMAIN p => r.w.enabled = ~Falsy(p.enabled)
         /\ "max" \in DOMAIN p => r.w.max = _normalizeLogMax(p.max).val
         /\ "console" \in DOMAIN p => r.w.console = _normalizeConsoleLevel(p.console)
         /\ "onEvent" \in DOMAIN p
               => r.w.onEvent = (IF Falsy(p.onEvent) THEN JNull ELSE p.onEvent)
         /\ "onPrint" \in DOMAIN p
               => r.w.onPrint = (IF Falsy(p.onPrint) THEN JNull ELSE p.onPrint)
         /\ "clock" \in DOMAIN p
               => r.w.clock = (IF Falsy(p.clock) THEN DateNow ELSE p.clock)
         /\ "workspace" \in DOMAIN p
               => r.w.userWorkspace = _resolveWorkspace(p.workspace)
    /\ r.w.name = w.name
    /\ r.w.clone = w.clone
    /\ r.w._count = w._count
    /\ r.w._lastAt = w._lastAt
    /\ Retained(r.w) \subseteq Retained(w)

\* C17: configure(patch) changes a policy field only if its key is in the
\* patch; a key that is present is applied even when its value is falsy;
\* configure({}) changes nothing; and configure never changes the name, the
\* default clone policy, the accepted count or the last accepted timestamp,
\* nor the retained records unless a max key truncates them.
C17_ConfigureByKeyPresence ==
    \A patch \in { q \in ObjectPatches : "o" \in DOMAIN q } :
        LET r == configure(worker, patch)
        IN  /\ ConfigureFrame(worker, patch.o, r)
            /\ patch = EmptyObj => (r.w = worker /\ ~r.threw)

\* falsy values were applied: the Worker is disabled, unbounded, without
\* hook, and what it retained and counted is still there
C17_Witness ==
    /\ last.op = "configure" /\ ~last.threw
    /\ ~worker.enabled /\ worker.max = 0 /\ worker.onEvent = JNull
    /\ worker.console = OFF /\ worker.clock = DateNow
    /\ worker.userWorkspace = EmptyObj
    /\ worker.name = "net" /\ worker.clone
    /\ worker._count = 2 /\ Len(worker._events) = 2

\* C18: configure(patch) with a patch that is not an object (null, a number,
\* a string, a boolean) throws and leaves the Worker as it was.
C18_NonObjectPatchThrows ==
    [][(last'.op = "configure" /\ last'.typeof \notin {"object", "undefined"})
          => (last'.threw /\ worker' = worker)]_vars

C18_Witness ==
    /\ last.op = "configure" /\ last.typeof = "string" /\ last.threw
    /\ worker._count = 2 /\ worker.onEvent = Hook /\ worker.max = 2

\* ------------------------------------------------------------------------
\* The Worker cloning payloads: stream defaults, per-call clone options,
\* hosts with and without a working deep copy
\* ------------------------------------------------------------------------
CloneOpts ==
    { MkObj([clone |-> c]) : c \in {Absent, JBool(TRUE), JBool(FALSE), JNum(1), JUndef} }

CloneEnvs ==
    [id : {Len(hist) + 1}, at : {JNum(1)}, clockThrows : {FALSE},
     hookThrows : {FALSE}, printThrows : {FALSE}, copies : BOOLEAN]

InitClone ==
    /\ \E c \in BOOLEAN :
         worker = Constructor([name |-> JStr("net"), clone |-> JBool(c)]).val
    /\ hist = <<>>
    /\ last = [op |-> "new"]
    /\ limitChanged = FALSE
    /\ cleared = FALSE
    /\ manager = NoManager

EmitClone == EmitWith(MaxCloneEmits, {"emit", "warn"}, CloneOpts, CloneEnvs)

NextClone == EmitClone \/ Clear

SpecClone == InitClone /\ [][NextClone]_vars

\* what a stored body reads as after the caller has written to the object it
\* passed to emit: a copy is untouched, the caller's object shows the write
AfterCallerWrite(body, written) ==
    IF body.copy THEN body ELSE [body EXCEPT !.of = written]

Written == JObj([code |-> JNum(9)])

\* C19: the clone flag of an emit is (options.clone === true) when the key
\* clone is in the options and the Worker default otherwise.  With the flag
\* true and a working deep copy the stored body is a copy, which a later
\* write by the caller to its object does not change; with the flag false
\* the stored body is the caller's object and shows the write.
C19_ClonePrecedence ==
    (last.op = "emit" /\ last.ret # JNull)
       => LET flag == IF "clone" \in DOMAIN last.opts
                      THEN last.opts.clone = JBool(TRUE)
                      ELSE worker.clone
              body == last.ret.body
          IN  /\ (flag /\ last.env.copies)
                    => /\ body.copy /\ body.of = last.data
                       /\ AfterCallerWrite(body, Written) = body
              /\ ~flag
                    => /\ ~body.copy /\ body.of = last.data
                       /\ AfterCallerWrite(body, Written).of = Written

\* an explicit clone: false on a Worker that clones by default stores the
\* caller's object, next to a record that was stored as a copy
C19_Witness ==
    /\ last.op = "emit" /\ last.ret # JNull
    /\ worker.clone
    /\ Prop(last.opts, "clone") = JBool(FALSE)
    /\ ~last.ret.body.copy
    /\ Len(hist) >= 2 /\ hist[Len(hist) - 1].body.copy

\* ------------------------------------------------------------------------
\* Manager.js: the registry of named Workers
\* ------------------------------------------------------------------------
\* value.trim() for the bucket names of the model
Trim(str) ==
    CASE str = " ui " -> "ui"
      [] str = " 0 "  -> "0"
      [] str = " "    -> ""
      [] OTHER        -> str

\* (variant: a string name is taken as it is, without trimming)
validateBucketNameUntrimmed(value, die) ==
    LET fail == IF die THEN Throws ELSE Ok(JNull)
    IN  IF value.type = "string"
        THEN IF Trim(value.s) = "" THEN fail ELSE Ok(JStr(value.s))
        ELSE IF value.type = "number"
        THEN IF IsFinite(value) THEN Ok(JStr(String(value))) ELSE fail
        ELSE fail

\* validateBucketName(value, die): the key as a JS string, null when the
\* name is invalid and die is false, Throws when it is invalid and die is true
validateBucketName(value, die) ==
    LET fail == IF die THEN Throws ELSE Ok(JNull)
    IN  IF value.type = "string"
        THEN IF Trim(value.s) = "" THEN fail ELSE Ok(JStr(Trim(value.s)))
        ELSE IF value.type = "number"
        THEN IF IsFinite(value) THEN Ok(JStr(String(value))) ELSE fail
        ELSE fail

\* Object.assign({}, a, b) on the keys and values of two objects
Assign(a, b) ==
    [k \in DOMAIN a \cup DOMAIN b |-> IF k \in DOMAIN b THEN b[k] ELSE a[k]]

\* a ?? b
Coalesce(a, b) == IF NotNullish(a) THEN a ELSE b

\* the keys and values of a JS value taken as an options object
KeysOf(value) ==
    IF ~Falsy(value) /\ value.type = "object" /\ "o" \in DOMAIN value
    THEN value.o ELSE EmptyObj.o

\* setWorkerConfig(cfg): the Manager after the call and whether it threw
setWorkerConfig(m, cfg) ==
    LET w          == KeysOf(cfg)
        prev       == KeysOf(m._workerConfig)
        rawConsole == IF "console" \in DOMAIN w THEN w.console ELSE Prop(prev, "console")
        rawOnEvent == IF "onEvent" \in DOMAIN w THEN w.onEvent ELSE Prop(prev, "onEvent")
        rawClock   == IF "clock" \in DOMAIN w THEN w.clock ELSE Prop(prev, "clock")
        workspace  == IF "workspace" \in DOMAIN w THEN w.workspace ELSE Prop(prev, "workspace")
        onEvent    == _getFunction(rawOnEvent, LibFuncGet(rawOnEvent))
        clock      == _getClock(rawClock)
        onPrint    == IF "onPrint" \in DOMAIN w
                      THEN _getFunction(w.onPrint, LibFuncGet(w.onPrint))
                      ELSE Ok(Coalesce(Prop(prev, "onPrint"), JNull))
    IN  IF ~onEvent.ok \/ ~clock.ok \/ ~onPrint.ok THEN [m |-> m, threw |-> TRUE]
        ELSE [m |-> [m EXCEPT !._workerConfig =
                 JObj([enabled   |-> IF "enabled" \in DOMAIN w
                                     THEN JBool(w.enabled # JBool(FALSE))
                                     ELSE Coalesce(Prop(prev, "enabled"), JBool(TRUE)),
                       max       |-> IF "max" \in DOMAIN w THEN w.max
                                     ELSE Coalesce(Prop(prev, "max"), JNum(0)),
                       console   |-> JNum(_normalizeConsoleLevel(rawConsole)),
                       onEvent   |-> onEvent.val,
                       clock     |-> clock.val,
                       workspace |-> Coalesce(workspace, EmptyObj),
                       clone     |-> JBool(IF "clone" \in DOMAIN w
                                           THEN w.clone = JBool(TRUE)
                                           ELSE Prop(prev, "clone") = JBool(TRUE)),
                       onPrint   |-> onPrint.val])],
              threw |-> FALSE]

\* createBucket, from `new Worker(merged)` on: `made` is what the
\* constructor gave
createBucketMade(m, made) ==
    IF ~made.ok THEN [m |-> m, key |-> "", threw |-> TRUE]
    ELSE [m |-> [m EXCEPT !.workers =
                    Assign(m.workers, [k \in {made.val.name} |-> made.val])],
          key |-> made.val.name, threw |-> FALSE]

\* createBucket, from the normalization of the merged options on
createBucketMerged(m, merged) ==
    LET onEvent == _getFunction(merged.onEvent, LibFuncGet(merged.onEvent))
        onPrint == _getFunction(merged.onPrint, LibFuncGet(merged.onPrint))
        clock   == _getClock(merged.clock)
    IN  IF ~onEvent.ok \/ ~onPrint.ok \/ ~clock.ok
        THEN [m |-> m, key |-> "", threw |-> TRUE]
        ELSE CHOOSE out \in
               { createBucketMade(m, made) :
                   made \in { Constructor(Assign(merged,
                                [console |-> JNum(_normalizeConsoleLevel(merged.console)),
                                 onEvent |-> onEvent.val,
                                 onPrint |-> onPrint.val,
                                 clock   |-> clock.val])) } } : TRUE

\* (variant: a per-bucket value wins only when it is truthy)
mergeBucketOptionsTruthy(env, o, key) ==
    Assign([k \in DOMAIN env \cup DOMAIN o |->
               IF k \in DOMAIN o /\ (k \notin DOMAIN env \/ ~Falsy(o[k])) THEN o[k] ELSE env[k]],
           [name      |-> key,
            workspace |-> IF "workspace" \in DOMAIN o THEN o.workspace ELSE env.workspace,
            clone     |-> JBool(IF "clone" \in DOMAIN o /\ ~Falsy(o.clone)
                                THEN o.clone = JBool(TRUE)
                                ELSE env.clone = JBool(TRUE))])

\* Object.assign({}, env, o, { name, workspace, clone }) of createBucket
mergeBucketOptions(env, o, key) ==
    Assign(Assign(env, o),
           [name      |-> key,
            workspace |-> IF "workspace" \in DOMAIN o THEN o.workspace ELSE env.workspace,
            clone     |-> JBool(IF "clone" \in DOMAIN o
                                THEN o.clone = JBool(TRUE)
                                ELSE env.clone = JBool(TRUE))])

\* createBucket(name, opts): the Manager after the call, the key of the new
\* Worker, and whether the call threw
createBucket(m, name, opts) ==
    LET key == validateBucketName(name, TRUE)
    IN  IF ~key.ok THEN [m |-> m, key |-> "", threw |-> TRUE]
        ELSE CHOOSE out \in
               { createBucketMerged(m, merged) :
                   merged \in { mergeBucketOptions(KeysOf(m._workerConfig),
                                                   KeysOf(opts), key.val) } } : TRUE

\* the loop of the constructor over Object.entries(opts.buckets), from the
\* i-th entry on
RECURSIVE createBuckets(_, _, _)
createBuckets(m, entries, i) ==
    IF i > Len(entries) THEN [m |-> m, threw |-> FALSE]
    ELSE CHOOSE out \in
           { IF r.threw THEN [m |-> r.m, threw |-> TRUE]
             ELSE createBuckets(r.m, entries, i + 1) :
               r \in { createBucket(m, JStr(entries[i].key),
                                    IF Falsy(entries[i].value) THEN EmptyObj
                                    ELSE entries[i].value) } } : TRUE

\* the constructor once the Worker defaults are set: c is what
\* setWorkerConfig(opts.worker) gave
ManagerConstructorWith(c, opts) ==
    IF c.threw THEN Throws
    ELSE CHOOSE out \in
           { IF b.threw THEN Throws ELSE Ok(b.m) :
               b \in { createBuckets(c.m, IF "buckets" \in DOMAIN opts
                                           THEN opts.buckets ELSE <<>>, 1) } } : TRUE

\* new Manager(opts); opts.buckets is given as the sequence of its entries
ManagerConstructor(opts) ==
    CHOOSE out \in
      { ManagerConstructorWith(c, opts) :
          c \in { setWorkerConfig(
                    [name          |-> IF Falsy(Prop(opts, "name")) THEN "log"
                                       ELSE String(Prop(opts, "name")),
                     enabled       |-> Prop(opts, "enabled") # JBool(FALSE),
                     throwOnError  |-> Prop(opts, "throwOnError") = JBool(TRUE),
                     _workerConfig |-> JNull,
                     workers       |-> [k \in {} |-> JNull]],
                    Prop(opts, "worker")) } } : TRUE

\* (variant: the Manager's flag is pushed down to every Worker)
Manager_setEnabledCascade(m, on) ==
    LET flag == (on = JUndef \/ ~Falsy(on))
    IN  [m EXCEPT !.enabled = flag,
                  !.workers = [k \in DOMAIN m.workers |-> setEnabled(m.workers[k], JBool(flag))]]

\* Manager.setEnabled(on = true)
Manager_setEnabled(m, on) ==
    [m EXCEPT !.enabled = (on = JUndef \/ ~Falsy(on))]

Manager_enable(m)  == Manager_setEnabled(m, JBool(TRUE))
Manager_disable(m) == Manager_setEnabled(m, JBool(FALSE))

\* Manager.bucket(name): whether there is such a Worker, and its key
bucket(m, name) ==
    LET key == validateBucketName(name, FALSE)
    IN  IF key.val = JNull THEN [found |-> FALSE, key |-> ""]
        ELSE [found |-> key.val.s \in DOMAIN m.workers, key |-> key.val.s]

\* what a Manager call gives when it does not reach a Worker
Dropped(m) == [m |-> m, ret |-> JNull, threw |-> FALSE, steps |-> <<>>]

\* what a Manager call gives when the Worker call on bucket `key` gave r
Forwarded(m, key, r) ==
    [m |-> [m EXCEPT !.workers[key] = r.w],
     ret |-> r.ret, threw |-> r.threw, steps |-> r.steps]

Manager_log(m, bucketName, data, opts, env) ==
    IF ~m.enabled THEN Dropped(m)
    ELSE LET b == bucket(m, bucketName)
         IN  IF ~b.found THEN Dropped(m)
             ELSE CHOOSE out \in
                    { Forwarded(m, b.key, r) :
                        r \in { log(m.workers[b.key], data, opts, env) } } : TRUE

Manager_info(m, bucketName, data, opts, env) ==
    IF ~m.enabled THEN Dropped(m)
    ELSE LET b == bucket(m, bucketName)
         IN  IF ~b.found THEN Dropped(m)
             ELSE CHOOSE out \in
                    { Forwarded(m, b.key, r) :
                        r \in { info(m.workers[b.key], data, opts, env) } } : TRUE

Manager_warn(m, bucketName, data, opts, env) ==
    IF ~m.enabled THEN Dropped(m)
    ELSE LET b == bucket(m, bucketName)
         IN  IF ~b.found THEN Dropped(m)
             ELSE CHOOSE out \in
                    { Forwarded(m, b.key, r) :
                        r \in { warn(m.workers[b.key], data, opts, env) } } : TRUE

\* (variant: the record is returned even with throwOnError)
ErrorForwardedQuiet(m, key, r) ==
    Forwarded(m, key, r)

\* Manager.error once the Worker call gave r: with throwOnError the record
\* is handed to console.error and an Error is thrown
ErrorForwarded(m, key, r) ==
    IF r.threw \/ ~m.throwOnError
    THEN Forwarded(m, key, r)
    ELSE [m |-> [m EXCEPT !.workers[key] = r.w], ret |-> JNull, threw |-> TRUE,
          steps |-> r.steps \o <<[step |-> "console.error", arg |-> r.ret],
                                 [step |-> "throw", record |-> r.ret]>>]

\* Manager.error: with throwOnError the record is stored without printing
Manager_error(m, bucketName, data, opts, env) ==
    IF ~m.enabled THEN Dropped(m)
    ELSE LET b == bucket(m, bucketName)
         IN  IF ~b.found
             THEN IF ~m.throwOnError THEN Dropped(m)
                  ELSE [m |-> m, ret |-> JNull, threw |-> TRUE,
                        steps |-> <<[step |-> "console.error", arg |-> data],
                                    [step |-> "throw", data |-> data]>>]
             ELSE CHOOSE out \in
                    { ErrorForwarded(m, b.key, r) :
                        r \in { error(m.workers[b.key], data,
                                      IF m.throwOnError
                                      THEN Assign(opts, [print |-> JBool(FALSE)])
                                      ELSE opts,
                                      env) } } : TRUE

\* Manager.to(bucketName)
Manager_to(m, bucketName) == bucket(m, bucketName)

\* (variant: the strict lookup takes an invalid name as a missing bucket)
_bucketSoft(m, name) ==
    LET key == validateBucketName(name, FALSE)
    IN  IF key.val = JNull THEN [ok |-> TRUE, found |-> FALSE, key |-> ""]
        ELSE [ok |-> TRUE, found |-> key.val.s \in DOMAIN m.workers, key |-> key.val.s]

\* Manager._bucket(name): the strict lookup; not ok when the name is invalid
_bucket(m, name) ==
    LET key == validateBucketName(name, TRUE)
    IN  IF ~key.ok THEN [ok |-> FALSE, found |-> FALSE, key |-> ""]
        ELSE [ok |-> TRUE, found |-> key.val.s \in DOMAIN m.workers, key |-> key.val.s]

\* (variant: an existing bucket is created anew)
ensureBucketAnew(m, name, opts) ==
    LET key == validateBucketName(name, TRUE)
    IN  IF ~key.ok THEN [m |-> m, key |-> "", threw |-> TRUE]
        ELSE createBucket(m, key.val, opts)

\* Manager.ensureBucket(name, opts): the Manager after the call, the key of
\* the Worker returned, and whether the call threw
ensureBucket(m, name, opts) ==
    LET key == validateBucketName(name, TRUE)
    IN  IF ~key.ok THEN [m |-> m, key |-> "", threw |-> TRUE]
        ELSE IF key.val.s \in DOMAIN m.workers
        THEN [m |-> m, key |-> key.val.s, threw |-> FALSE]
        ELSE createBucket(m, key.val, opts)

\* configureBucket once ensureBucket gave e: w.configure(rest)
configureBucketEnsured(e, rest) ==
    IF e.threw THEN e
    ELSE CHOOSE out \in
           { [m |-> [e.m EXCEPT !.workers[e.key] = c.w], key |-> e.key, threw |-> c.threw] :
               c \in { configure(e.m.workers[e.key], rest) } } : TRUE

\* (variant: a clone key of the patch is also applied to an existing bucket)
configureBucketRecloning(m, name, in_patch) ==
    LET patch     == IF in_patch = JUndef THEN EmptyObj ELSE in_patch
        key       == validateBucketName(name, TRUE)
        p         == KeysOf(patch)
        create    == [k \in DOMAIN p \cap {"workspace", "clone"} |->
                        IF k = "clone" THEN JBool(p.clone = JBool(TRUE)) ELSE p[k]]
        rest      == IF "clone" \in DOMAIN p
                     THEN JObj([k \in DOMAIN p \ {"clone"} |-> p[k]])
                     ELSE patch
    IN  IF ~key.ok THEN [m |-> m, key |-> "", threw |-> TRUE]
        ELSE CHOOSE out \in
               { IF c.threw \/ "clone" \notin DOMAIN p THEN c
                 ELSE [c EXCEPT !.m.workers[c.key].clone = (p.clone = JBool(TRUE))] :
                   c \in { configureBucketEnsured(e, rest) :
                             e \in { ensureBucket(m, key.val, JObj(create)) } } } : TRUE

\* Manager.configureBucket(name, patch)
configureBucket(m, name, in_patch) ==
    LET patch     == IF in_patch = JUndef THEN EmptyObj ELSE in_patch
        key       == validateBucketName(name, TRUE)
        p         == KeysOf(patch)
        create    == [k \in DOMAIN p \cap {"workspace", "clone"} |->
                        IF k = "clone" THEN JBool(p.clone = JBool(TRUE)) ELSE p[k]]
        rest      == IF "clone" \in DOMAIN p
                     THEN JObj([k \in DOMAIN p \ {"clone"} |-> p[k]])
                     ELSE patch
    IN  IF ~key.ok THEN [m |-> m, key |-> "", threw |-> TRUE]
        ELSE CHOOSE out \in
               { configureBucketEnsured(e, rest) :
                   e \in { ensureBucket(m, key.val, JObj(create)) } } : TRUE

\* Manager.get(bucketName, filter): the records, or Throws
Manager_get(m, bucketName, filter) ==
    LET b == _bucket(m, bucketName)
    IN  IF ~b.ok THEN Throws
        ELSE IF ~b.found THEN Ok(<<>>)
        ELSE get(m.workers[b.key], IF filter = JUndef THEN EmptyObj ELSE filter)

\* (variant: clear(name) clears every bucket)
Manager_clearAll(m, bucketName) ==
    [m |-> [m EXCEPT !.workers = [k \in DOMAIN m.workers |-> clear(m.workers[k])]],
     threw |-> FALSE]

\* Manager.clear(bucketName): the Manager after the call and whether it threw
Manager_clear(m, bucketName) ==
    IF ~NotNullish(bucketName)
    THEN [m |-> [m EXCEPT !.workers = [k \in DOMAIN m.workers |-> clear(m.workers[k])]],
          threw |-> FALSE]
    ELSE LET b == _bucket(m, bucketName)
         IN  IF ~b.ok THEN [m |-> m, threw |-> TRUE]
             ELSE IF ~b.found THEN [m |-> m, threw |-> FALSE]
             ELSE [m |-> [m EXCEPT !.workers[b.key] = clear(@)], threw |-> FALSE]

\* Manager.list(): the stats of every Worker, by key
list(m) == [k \in DOMAIN m.workers |-> stats(m.workers[k])]

\* manager[method](bucketName, data, opts)
ManagerCall(m, method, bucketName, data, opts, env) ==
    CASE method = "log"   -> Manager_log(m, bucketName, data, opts, env)
      [] method = "info"  -> Manager_info(m, bucketName, data, opts, env)
      [] method = "warn"  -> Manager_warn(m, bucketName, data, opts, env)
      [] method = "error" -> Manager_error(m, bucketName, data, opts, env)

\* ------------------------------------------------------------------------
\* A Manager with two buckets, callers that log through it and callers that
\* hold a Worker obtained from it
\* ------------------------------------------------------------------------
BucketNames == {JStr("net"), JStr(" ui "), JStr("nope"), JNull}

InitManager ==
    /\ \E e \in BOOLEAN, t \in BOOLEAN :
         \E made \in { ManagerConstructor(
                      [enabled      |-> JBool(e),
                       throwOnError |-> JBool(t),
                       worker       |-> JObj([console |-> JStr("warn"), onEvent |-> Hook]),
                       buckets      |-> <<[key |-> "net", value |-> JObj([max |-> JNum(2)])],
                                          [key |-> "ui",
                                           value |-> JObj([enabled |-> JBool(FALSE)])]>>]) } :
            manager = made.val
    /\ worker = JNull
    /\ hist = <<>>
    /\ last = [op |-> "new"]
    /\ limitChanged = FALSE
    /\ cleared = FALSE

ManagerSetEnabled ==
    /\ \/ \E on \in {JBool(TRUE), JBool(FALSE), JUndef, JNum(0)} :
             manager' = Manager_setEnabled(manager, on)
       \/ manager' = Manager_enable(manager)
       \/ manager' = Manager_disable(manager)
    /\ last' = [op |-> "manager.setEnabled"]
    /\ UNCHANGED <<worker, hist, limitChanged, cleared>>

ManagerEmit ==
    /\ Len(hist) < MaxManagerEmits
    /\ \E method \in {"log", "info", "warn", "error"}, bucketName \in BucketNames,
          env \in EmitEnvs({1}, {FALSE}) :
         \E r \in { ManagerCall(manager, method, bucketName, Payload, EmptyObj.o, env) } :
             /\ manager' = r.m
             /\ hist' = IF r.steps # <<>> /\ r.steps[1].step = "clock"
                        THEN Append(hist, [id |-> env.id]) ELSE hist
             /\ last' = [op |-> "manager.emit", method |-> method, bucket |-> bucketName,
                         ret |-> r.ret, threw |-> r.threw, steps |-> r.steps]
    /\ UNCHANGED <<worker, limitChanged, cleared>>

\* a caller emits on a Worker it got from manager.bucket(name)
BucketEmit ==
    /\ Len(hist) < MaxManagerEmits
    /\ \E key \in DOMAIN manager.workers, env \in EmitEnvs({1}, {FALSE}) :
         \E r \in { emit(manager.workers[key], Payload, [level |-> JStr("error")], env) } :
             /\ manager' = [manager EXCEPT !.workers[key] = r.w]
             /\ hist' = IF r.ret # JNull THEN Append(hist, [id |-> env.id]) ELSE hist
             /\ last' = [op |-> "bucket.emit", bucket |-> key,
                         ret |-> r.ret, threw |-> r.threw, steps |-> r.steps]
    /\ UNCHANGED <<worker, limitChanged, cleared>>

\* a caller switches a Worker it got from manager.bucket(name)
BucketSetEnabled ==
    /\ \E key \in DOMAIN manager.workers, on \in BOOLEAN :
         manager' = [manager EXCEPT !.workers[key] = setEnabled(@, JBool(on))]
    /\ last' = [op |-> "bucket.setEnabled"]
    /\ UNCHANGED <<worker, hist, limitChanged, cleared>>

NextManager == ManagerSetEnabled \/ ManagerEmit \/ BucketEmit \/ BucketSetEnabled

SpecManager == InitManager /\ [][NextManager]_vars

\* C20: while the Manager is disabled, manager.log/info/warn/error return
\* null, call no hook or printer and leave every Worker as it is; switching
\* the Manager's flag changes no Worker (nor the Worker defaults); and an
\* enabled Worker obtained from the Manager accepts a direct emit while the
\* Manager is disabled.
C20_ManagerGateForwardsOnly ==
    [][/\ (last'.op = "manager.emit" /\ ~manager.enabled)
             => /\ last'.ret = JNull /\ ~last'.threw /\ last'.steps = <<>>
                /\ manager' = manager
       /\ last'.op = "manager.setEnabled"
             => /\ manager'.workers = manager.workers
                /\ manager'._workerConfig = manager._workerConfig
                /\ manager'.throwOnError = manager.throwOnError
       /\ (last'.op = "bucket.emit" /\ ~manager.enabled
              /\ manager.workers[last'.bucket].enabled)
             => /\ last'.ret # JNull
                /\ last'.ret \in Retained(manager'.workers[last'.bucket])
                /\ manager'.workers[last'.bucket]._count
                      = manager.workers[last'.bucket]._count + 1
                /\ manager'.enabled = manager.enabled]_vars

\* a Manager that was enabled and is now disabled dropped a call, while its
\* Worker holds a record
C20_Witness ==
    /\ ~manager.enabled
    /\ last.op = "manager.emit" /\ last.bucket = JStr("net") /\ last.ret = JNull
    /\ manager.workers["net"].enabled
    /\ manager.workers["net"]._count = 1
    /\ ~manager.workers["ui"].enabled

\* ------------------------------------------------------------------------
\* A Manager used as a registry: lookups, creation, per-bucket configuration,
\* reads and clears, by valid, missing and invalid names
\* ------------------------------------------------------------------------
InvalidNames  == {JNull, JStr(" ")}
RegistryNames == {JStr("net"), JStr(" ui ")} \cup InvalidNames

\* the key a valid name of the model stands for
KeyOfName(name) == IF name = JStr(" ui ") THEN "ui" ELSE name.s

EnsureOpts == {JObj([max |-> JNum(1), enabled |-> JBool(FALSE)])}

BucketPatches == {JObj([max |-> JNum(1)])}

InitRegistry ==
    /\ \E t \in BOOLEAN :
         \E made \in { ManagerConstructor(
                      [throwOnError |-> JBool(t),
                       worker       |-> JObj([console |-> JStr("warn")]),
                       buckets      |-> <<[key |-> "net",
                                           value |-> JObj([max |-> JNum(2)])]>>]) } :
            manager = made.val
    /\ worker = JNull
    /\ hist = <<>>
    /\ last = [op |-> "new"]
    /\ limitChanged = FALSE
    /\ cleared = FALSE

RegistryLookup ==
    /\ \E op \in {"bucket", "to"}, name \in RegistryNames :
         last' = [op |-> op, name |-> name,
                  found |-> IF op = "to" THEN Manager_to(manager, name).found
                            ELSE bucket(manager, name).found]
    /\ UNCHANGED <<manager, worker, hist, limitChanged, cleared>>

RegistryEmit ==
    /\ Len(hist) < MaxRegistryEmits
    /\ \E method \in {"log", "error"}, name \in RegistryNames,
          env \in EmitEnvs({1}, {FALSE}) :
         \E r \in { ManagerCall(manager, method, name, Payload, EmptyObj.o, env) } :
             /\ manager' = r.m
             /\ hist' = IF r.steps # <<>> /\ r.steps[1].step = "clock"
                        THEN Append(hist, [id |-> env.id]) ELSE hist
             /\ last' = [op |-> "manager.emit", method |-> method, name |-> name,
                         ret |-> r.ret, threw |-> r.threw, steps |-> r.steps]
    /\ UNCHANGED <<worker, limitChanged, cleared>>

CreateBucket ==
    /\ \E name \in RegistryNames :
         \E r \in { createBucket(manager, name, JUndef) } :
             /\ manager' = r.m
             /\ last' = [op |-> "createBucket", name |-> name, threw |-> r.threw,
                         key |-> r.key]
    /\ UNCHANGED <<worker, hist, limitChanged, cleared>>

EnsureBucket ==
    /\ \E name \in RegistryNames, opts \in EnsureOpts :
         \E r \in { ensureBucket(manager, name, opts) } :
             /\ manager' = r.m
             /\ last' = [op |-> "ensureBucket", name |-> name, threw |-> r.threw,
                         key |-> r.key]
    /\ UNCHANGED <<worker, hist, limitChanged, cleared>>

ConfigureBucket ==
    /\ \E name \in RegistryNames, patch \in BucketPatches :
         \E r \in { configureBucket(manager, name, patch) } :
             /\ manager' = r.m
             /\ last' = [op |-> "configureBucket", name |-> name, threw |-> r.threw,
                         key |-> r.key]
    /\ UNCHANGED <<worker, hist, limitChanged, cleared>>

RegistryGet ==
    /\ \E name \in RegistryNames :
         last' = [op |-> "get", name |-> name, ret |-> Manager_get(manager, name, JUndef)]
    /\ UNCHANGED <<manager, worker, hist, limitChanged, cleared>>

RegistryClear ==
    /\ \E name \in RegistryNames :
         \E r \in { Manager_clear(manager, name) } :
             /\ manager' = r.m
             /\ last' = [op |-> "clear", name |-> name, threw |-> r.threw]
    /\ cleared' = TRUE
    /\ UNCHANGED <<worker, hist, limitChanged>>

NextRegistry ==
    \/ RegistryLookup \/ RegistryEmit \/ CreateBucket \/ EnsureBucket
    \/ ConfigureBucket \/ RegistryGet \/ RegistryClear

SpecRegistry == InitRegistry /\ [][NextRegistry]_vars

\* the outcome of the strict entry points: did the call throw (get carries
\* it in its result)
Threw(l) == IF l.op = "get" THEN l.ret = Throws ELSE l.threw

StrictOps == {"createBucket", "ensureBucket", "configureBucket", "get", "clear"}

\* a manager.log/info/warn call, or manager.error without throwOnError
SoftEmit(l, m) ==
    l.op = "manager.emit" /\ (l.method # "error" \/ ~m.throwOnError)

\* the soft entry points on an invalid name, and every entry point of the
\* claim on a valid name without bucket
SoftAndMissing ==
    /\ (last'.op \in {"bucket", "to"} /\ last'.name \in InvalidNames)
          => ~last'.found /\ manager' = manager
    /\ (SoftEmit(last', manager) /\ last'.name \in InvalidNames)
          => last'.ret = JNull /\ ~last'.threw /\ manager' = manager
    /\ (last'.op \in {"bucket", "to", "manager.emit", "get", "clear"}
          /\ last'.name \notin InvalidNames
          /\ KeyOfName(last'.name) \notin DOMAIN manager.workers)
          => /\ manager' = manager
             /\ last'.op \in {"bucket", "to"} => ~last'.found
             /\ SoftEmit(last', manager) => last'.ret = JNull /\ ~last'.threw
             /\ last'.op = "get" => last'.ret = Ok(<<>>)
             /\ last'.op = "clear" => ~last'.threw

\* C21 (as stated): on an invalid bucket name bucket()/to() return null and
\* log/info/warn (and error without throwOnError) return null without
\* throwing, while createBucket, ensureBucket, configureBucket, get and
\* clear(name) throw; on a valid name without bucket, bucket() returns null,
\* the log calls return null, get returns [] and clear(name) does nothing;
\* none of these calls creates a bucket.
C21_SoftAndStrictLookups ==
    [][/\ SoftAndMissing
       /\ (last'.op \in StrictOps /\ last'.name \in InvalidNames)
             => Threw(last') /\ manager' = manager]_vars

\* C21 (amended): the same, except that clear with a null (or undefined)
\* name does not throw: it clears every bucket.
C21_SoftAndStrictLookupsNamed ==
    [][/\ SoftAndMissing
       /\ (last'.op \in StrictOps /\ last'.name \in InvalidNames
             /\ ~(last'.op = "clear" /\ last'.name = JNull))
             => Threw(last') /\ manager' = manager
       /\ (last'.op = "clear" /\ last'.name = JNull)
             => /\ ~last'.threw
                /\ DOMAIN manager'.workers = DOMAIN manager.workers
                /\ \A k \in DOMAIN manager.workers :
                      manager'.workers[k] = clear(manager.workers[k])]_vars

\* a strict read by an invalid name threw on a registry that holds records
C21_Witness ==
    /\ last.op = "get" /\ last.name = JStr(" ") /\ last.ret = Throws
    /\ DOMAIN manager.workers = {"net"}
    /\ manager.workers["net"]._count = 1

\* the record carried by the Error that manager.error threw
ThrownRecords(l) == { st.record : st \in { x \in StepsOf(l.steps, "throw") : "record" \in DOMAIN x } }

\* manager.error on an enabled Manager: what holds whether or not the
\* addressed Worker is enabled
ErrorAlways ==
    /\ manager.throwOnError
          => /\ last'.threw
             /\ (last'.bucket = JNull \/ KeyOfName(last'.bucket) \notin DOMAIN manager.workers)
                   => manager' = manager
    /\ ~manager.throwOnError
          => /\ ~last'.threw
             /\ \/ last'.ret = JNull
                \/ last'.ret \in Retained(manager'.workers[KeyOfName(last'.bucket)])

\* manager.error with throwOnError reached the Worker of bucket k: the
\* record is stored and thrown, and the Worker's printer was not called
ErrorStored(k) ==
    /\ manager'.workers[k]._count = manager.workers[k]._count + 1
    /\ Len(manager'.workers[k]._events) >= 1
    /\ \E rec \in Retained(manager'.workers[k]) : ThrownRecords(last') = {rec}
    /\ StepsOf(last'.steps, "print") = {}

\* C22 (as stated): manager.error with throwOnError on an enabled Manager
\* always throws; when the bucket exists the record is first stored in its
\* Worker, without a printer call, and is the record of the Error; when the
\* bucket is missing or the name invalid nothing is stored.  Without
\* throwOnError it never throws and returns the stored record or null.
C22_ErrorThrowsAfterStoring ==
    [][(last'.op = "manager.emit" /\ last'.method = "error" /\ manager.enabled)
          => /\ ErrorAlways
             /\ (manager.throwOnError /\ last'.bucket # JNull
                   /\ KeyOfName(last'.bucket) \in DOMAIN manager.workers)
                   => ErrorStored(KeyOfName(last'.bucket))]_vars

\* C22 (amended): the same, with the record stored when the bucket exists
\* and its Worker is enabled; on a disabled Worker the call still throws,
\* stores nothing and the Error carries null.
C22_ErrorThrowsAfterStoringEnabled ==
    [][(last'.op = "manager.emit" /\ last'.method = "error" /\ manager.enabled)
          => /\ ErrorAlways
             /\ (manager.throwOnError /\ last'.bucket # JNull
                   /\ KeyOfName(last'.bucket) \in DOMAIN manager.workers)
                   => IF manager.workers[KeyOfName(last'.bucket)].enabled
                      THEN ErrorStored(KeyOfName(last'.bucket))
                      ELSE /\ manager' = manager
                           /\ ThrownRecords(last') = {JNull}]_vars

\* manager.error threw after storing an error record that the Worker's
\* console policy (warn) would have printed
C22_Witness ==
    /\ manager.enabled /\ manager.throwOnError
    /\ last.op = "manager.emit" /\ last.method = "error" /\ last.threw
    /\ last.bucket = JStr("net")
    /\ manager.workers["net"].console = WARN
    /\ manager.workers["net"]._count = 2
    /\ \E rec \in ThrownRecords(last) : rec # JNull /\ rec.header.level = JStr("error")

\* C23: createBucket(name) on an existing name puts a new, empty Worker in
\* the registry under that name (size and count 0, nothing of the old Worker
\* is returned by manager.get); ensureBucket(name, opts) on an existing name
\* returns the existing Worker and changes nothing, and creates a Worker,
\* from opts, only when the name is missing.
C23_CreateReplacesEnsureKeeps ==
    [][/\ (last'.op = "createBucket" /\ ~last'.threw
             /\ KeyOfName(last'.name) \in DOMAIN manager.workers)
             => /\ last'.key = KeyOfName(last'.name)
                /\ DOMAIN manager'.workers = DOMAIN manager.workers
                /\ stats(manager'.workers[last'.key]).size = 0
                /\ stats(manager'.workers[last'.key]).count = 0
                /\ Manager_get(manager', last'.name, JUndef) = Ok(<<>>)
                /\ \A k \in DOMAIN manager.workers \ {last'.key} :
                      manager'.workers[k] = manager.workers[k]
       /\ (last'.op = "ensureBucket" /\ ~last'.threw)
             => IF KeyOfName(last'.name) \in DOMAIN manager.workers
                THEN /\ manager' = manager
                     /\ last'.key = KeyOfName(last'.name)
                ELSE /\ DOMAIN manager'.workers
                           = DOMAIN manager.workers \cup {KeyOfName(last'.name)}
                     /\ manager'.workers[last'.key].max = 1
                     /\ ~manager'.workers[last'.key].enabled
                     /\ manager'.workers[last'.key]._count = 0]_vars

\* createBucket on the name of a Worker that held a record: the record was
\* accepted and never cleared, and the registry holds an empty Worker
C23_Witness ==
    /\ last.op = "createBucket" /\ last.name = JStr("net") /\ ~last.threw
    /\ DOMAIN manager.workers = {"net"}
    /\ Len(hist) = 1 /\ ~cleared
    /\ manager.workers["net"]._count = 0
    /\ manager.workers["net"]._events = <<>>

\* the bucket keys other than the one a call by `name` addresses
OtherBuckets(m, name) == DOMAIN m.workers \ {KeyOfName(name)}

\* C25: every retained record is held by one Worker only and carries that
\* Worker's name as header.source, the Manager has no record storage of its
\* own, and a log call, clear(name) or configureBucket(name) addressed to one
\* bucket leaves every other bucket's Worker (records, size, count, last
\* accepted timestamp) as it was.
C25_StreamIsolation ==
    [][/\ DOMAIN manager' = {"name", "enabled", "throwOnError", "_workerConfig", "workers"}
       /\ \A k \in DOMAIN manager'.workers :
             \A rec \in Retained(manager'.workers[k]) :
                /\ rec.header.source = JStr(k)
                /\ \A j \in DOMAIN manager'.workers \ {k} :
                      \A other \in Retained(manager'.workers[j]) : other.id # rec.id
       /\ (last'.op \in {"manager.emit", "clear", "configureBucket"}
             /\ last'.name \notin InvalidNames)
             => \A k \in OtherBuckets(manager, last'.name) :
                   /\ k \in DOMAIN manager'.workers
                   /\ manager'.workers[k]._events = manager.workers[k]._events
                   /\ stats(manager'.workers[k]) = stats(manager.workers[k])
                   /\ manager'.workers[k]._lastAt = manager.workers[k]._lastAt]_vars

\* two buckets hold one record each; the last call stored the record of ui
C25_Witness ==
    /\ last.op = "manager.emit" /\ last.name = JStr(" ui ") /\ last.ret # JNull
    /\ DOMAIN manager.workers = {"net", "ui"}
    /\ Len(manager.workers["net"]._events) = 1
    /\ manager.workers["ui"]._events = <<last.ret>>
    /\ last.ret.header.source = JStr("ui")

\* ------------------------------------------------------------------------
\* A Manager whose Worker defaults change while buckets are created with and
\* without per-bucket options
\* ------------------------------------------------------------------------
WorkerConfigs ==
    { EmptyObj, JUndef, JNull,
      JObj([console |-> JStr("info")]), JObj([console |-> JBool(FALSE)]),
      JObj([max |-> JNum(1)]), JObj([max |-> JNum(0)]),
      JObj([enabled |-> JBool(FALSE)]), JObj([clone |-> JBool(FALSE)]),
      JObj([onEvent |-> JNull]), JObj([onPrint |-> Printer]),
      JObj([clock |-> Clock]), JObj([workspace |-> Workspace]),
      JObj([max |-> JNum(1), clone |-> JBool(FALSE)]) }

BucketOptions ==
    { EmptyObj, JUndef,
      JObj([enabled |-> JBool(FALSE)]), JObj([max |-> JNum(0)]),
      JObj([console |-> JBool(FALSE)]), JObj([clone |-> JBool(FALSE)]),
      JObj([onEvent |-> JNull]), JObj([onPrint |-> Printer]),
      JObj([clock |-> Clock]), JObj([workspace |-> JNull]),
      JObj([enabled |-> JBool(FALSE), max |-> JNum(0), console |-> JBool(FALSE),
            clone |-> JBool(FALSE)]),
      JObj([max |-> JNum(1), console |-> JStr("info"), clone |-> JBool(TRUE)]) }

InitDefaults ==
    /\ \E made \in { ManagerConstructor(
                      [worker |-> JObj([console |-> JStr("warn"), max |-> JNum(2),
                                        clone |-> JBool(TRUE), onEvent |-> Hook,
                                        workspace |-> Workspace])]) } :
          manager = made.val
    /\ worker = JNull
    /\ hist = <<>>
    /\ last = [op |-> "new"]
    /\ limitChanged = FALSE
    /\ cleared = FALSE

SetWorkerConfig ==
    /\ \E cfg \in { JObj([console |-> JStr("info")]), JObj([enabled |-> JBool(FALSE)]),
                    JObj([max |-> JNum(1), clone |-> JBool(FALSE)]), EmptyObj } :
         \E r \in { setWorkerConfig(manager, cfg) } :
             /\ manager' = r.m
             /\ last' = [op |-> "setWorkerConfig", threw |-> r.threw]
    /\ UNCHANGED <<worker, hist, limitChanged, cleared>>

CreateWithOptions ==
    /\ \E name \in {JStr("net"), JStr(" ui ")},
          opts \in { EmptyObj, JObj([console |-> JBool(FALSE)]),
                     JObj([enabled |-> JBool(FALSE), max |-> JNum(0), console |-> JBool(FALSE),
                           clone |-> JBool(FALSE)]) } :
         \E r \in { createBucket(manager, name, opts) } :
             /\ manager' = r.m
             /\ last' = [op |-> "createBucket", threw |-> r.threw, key |-> r.key]
    /\ UNCHANGED <<worker, hist, limitChanged, cleared>>

NextDefaults == SetWorkerConfig \/ CreateWithOptions

SpecDefaults == InitDefaults /\ [][NextDefaults]_vars

\* the value a Worker option is taken from: the per-bucket value when the
\* key is there, the cached default otherwise
Chosen(o, env, k) == IF k \in DOMAIN o THEN o[k] ELSE env[k]

\* the Worker w was made from per-bucket options o over the defaults env
MadeFrom(w, o, env) ==
    /\ w.enabled = (Chosen(o, env, "enabled") # JBool(FALSE))
    /\ w.max = _normalizeLogMax(Chosen(o, env, "max")).val
    /\ w.console = _normalizeConsoleLevel(Chosen(o, env, "console"))
    /\ w.clone = (Chosen(o, env, "clone") = JBool(TRUE))
    /\ w.onEvent = (IF Falsy(Chosen(o, env, "onEvent")) THEN JNull
                    ELSE Chosen(o, env, "onEvent"))
    /\ w.onPrint = (IF Falsy(Chosen(o, env, "onPrint")) THEN JNull
                    ELSE Chosen(o, env, "onPrint"))
    /\ w.clock = (IF Falsy(Chosen(o, env, "clock")) THEN DateNow
                  ELSE Chosen(o, env, "clock"))
    /\ w.userWorkspace = (IF Chosen(o, env, "workspace") = Workspace THEN Workspace
                          ELSE EmptyObj)

\* the defaults after setWorkerConfig(cfg) over the defaults before
DefaultsFrom(after, cfg, before) ==
    /\ DOMAIN after = DOMAIN before
    /\ \A k \in DOMAIN before \ DOMAIN cfg : after[k] = before[k]
    /\ "enabled" \in DOMAIN cfg => after.enabled = JBool(cfg.enabled # JBool(FALSE))
    /\ "max" \in DOMAIN cfg => after.max = cfg.max
    /\ "console" \in DOMAIN cfg => after.console = JNum(_normalizeConsoleLevel(cfg.console))
    /\ "clone" \in DOMAIN cfg => after.clone = JBool(cfg.clone = JBool(TRUE))
    /\ "onEvent" \in DOMAIN cfg
          => after.onEvent = (IF Falsy(cfg.onEvent) THEN JNull ELSE cfg.onEvent)
    /\ "onPrint" \in DOMAIN cfg
          => after.onPrint = (IF Falsy(cfg.onPrint) THEN JNull ELSE cfg.onPrint)
    /\ "clock" \in DOMAIN cfg
          => after.clock = (IF Falsy(cfg.clock) THEN DateNow ELSE cfg.clock)
    /\ "workspace" \in DOMAIN cfg => after.workspace = Coalesce(cfg.workspace, EmptyObj)

\* C24: a bucket created with per-bucket options takes every Worker option
\* from those options when the key is present, falsy values included, and
\* from the cached defaults otherwise; setWorkerConfig(cfg) replaces the
\* defaults whose keys are in cfg, keeps the others, and changes no Worker
\* that already exists.
C24_KeyPresenceWins ==
    /\ \A opts \in BucketOptions :
          \A r \in { createBucket(manager, JStr("net"), opts) } :
             /\ ~r.threw
             /\ MadeFrom(r.m.workers["net"], KeysOf(opts), manager._workerConfig.o)
             /\ r.m._workerConfig = manager._workerConfig
    /\ \A cfg \in WorkerConfigs :
          \A r \in { setWorkerConfig(manager, cfg) } :
             /\ ~r.threw
             /\ DefaultsFrom(r.m._workerConfig.o, KeysOf(cfg), manager._workerConfig.o)
             /\ r.m.workers = manager.workers

\* the defaults were changed after a bucket was created with falsy
\* per-bucket values, next to a bucket made from the earlier defaults
C24_Witness ==
    /\ last.op = "setWorkerConfig"
    /\ DOMAIN manager.workers = {"net", "ui"}
    /\ manager._workerConfig.o.max = JNum(1)
    /\ manager._workerConfig.o.console = JNum(INFO)
    /\ manager._workerConfig.o.clone = JBool(FALSE)
    /\ manager.workers["net"].max = 0 /\ ~manager.workers["net"].enabled
    /\ manager.workers["net"].console = OFF /\ ~manager.workers["net"].clone
    /\ manager.workers["ui"].max = 2 /\ manager.workers["ui"].console = WARN
    /\ manager.workers["ui"].clone

\* ------------------------------------------------------------------------
\* The Worker queried with key-based predicates over records of different
\* levels and bodies
\* ------------------------------------------------------------------------
MaxPredicateEmits == 3

\* the emits of the model: the method called and the payload
PayloadCalls ==
    { <<"log", JObj([code |-> JNum(1)])>>, <<"log", JObj([code |-> JNum(3)])>>,
      <<"warn", JObj([code |-> JNum(3)])>>, <<"log", JObj([level |-> JStr("warn")])>>,
      <<"warn", JNum(3)>> }

WarnOf == JFn("(v, rec) => rec.header.level === 'warn'")
AtLeast2 == JFn("v => v >= 2")
Thrower == JFn("() => { throw }")

PredicateFilters ==
    { JObj([k \in {"body.code"} |-> AtLeast2]),
      JObj([k \in {"body.code"} |-> JNum(3)]),
      JObj([k \in {"header.code"} |-> JNum(3)]),
      JObj([code |-> JNum(3)]),
      JObj([value |-> JNum(3)]),
      JObj([k \in {"body.value"} |-> AtLeast2]),
      JObj([level |-> JStr("warn")]),
      JObj([k \in {"header.level"} |-> JStr("warn")]),
      JObj([k \in {"body.level"} |-> JStr("warn")]),
      JObj([at |-> JNum(1)]),
      JObj([source |-> JStr("net")]),
      JObj([code |-> WarnOf]),
      JObj([code |-> Thrower]),
      JObj([level |-> JStr("warn"), code |-> AtLeast2]),
      JObj([level |-> Thrower, code |-> JNum(3)]),
      JObj([code |-> JUndef]) }

InvalidLimitFilters ==
    { JObj([limit |-> JNum(0 - 1)]), JObj([limit |-> JFrac, code |-> Thrower]) }

InitPredicates ==
    /\ \E m \in {0, 2} :
         worker = Constructor([name |-> JStr("net"), max |-> JNum(m), clock |-> Clock]).val
    /\ hist = <<>>
    /\ last = [op |-> "new"]
    /\ limitChanged = FALSE
    /\ cleared = FALSE
    /\ manager = NoManager

EmitPayload ==
    /\ Len(hist) < MaxPredicateEmits
    /\ \E c \in PayloadCalls :
         \E env \in EmitEnvs({1}, {FALSE}) :
           \E r \in { Call(worker, c[1], c[2], JUndef, env) } :
             /\ worker' = r.w
             /\ hist' = IF r.ret # JNull THEN Append(hist, r.ret) ELSE hist
             /\ last' = [op |-> "emit", method |-> c[1], ret |-> r.ret, threw |-> r.threw]
    /\ UNCHANGED <<manager, limitChanged, cleared>>

GetPredicates ==
    /\ \E filter \in PredicateFilters \cup InvalidLimitFilters \cup {EmptyObj} :
         \E r \in { getOn(worker, filter) } :
             /\ worker' = r.w
             /\ last' = [op |-> "get", filter |-> filter, ret |-> r.ret]
    /\ UNCHANGED <<manager, hist, limitChanged, cleared>>

Stats ==
    /\ last' = [op |-> "stats", ret |-> stats(worker)]
    /\ UNCHANGED <<manager, worker, hist, limitChanged, cleared>>

NextPredicates == EmitPayload \/ GetPredicates \/ Stats

SpecPredicates == InitPredicates /\ [][NextPredicates]_vars

\* C26: stats() and get(filter) leave the Worker as it was, also when get
\* throws on an invalid limit or a predicate throws; the same call made
\* again returns the same value.
C26_ObserversArePure ==
    [][ /\ last'.op \in {"get", "stats"} => worker' = worker
        /\ last'.op = "get" => get(worker', last'.filter) = last'.ret
        /\ last'.op = "stats" => stats(worker') = last'.ret ]_vars

\* a query with a throwing predicate and an invalid limit threw over a ring
\* that holds two records
C26_Witness ==
    /\ last.op = "get"
    /\ last.filter = JObj([limit |-> JFrac, code |-> Thrower])
    /\ ~last.ret.ok
    /\ worker.max = 2 /\ Len(worker._events) = 2

\* the section and the property a filter key names
Target(key) ==
    CASE key = "body.code"    -> <<"body", "code">>
      [] key = "body.value"   -> <<"body", "value">>
      [] key = "body.level"   -> <<"body", "level">>
      [] key = "header.code"  -> <<"header", "code">>
      [] key = "header.level" -> <<"header", "level">>
      [] OTHER -> IF key \in {"at", "source", "level", "event", "trace"}
                  THEN <<"header", key>> ELSE <<"body", key>>

\* rec[section][prop]
Field(rec, section, prop) ==
    IF section = "header"
    THEN (IF prop \in DOMAIN rec.header THEN rec.header[prop] ELSE JUndef)
    ELSE IF rec.body.wrapped
         THEN (IF prop = "value" THEN rec.body.of ELSE JUndef)
         ELSE (IF prop \in DOMAIN rec.body.of.o THEN rec.body.of.o[prop] ELSE JUndef)

\* rec satisfies the predicate key: expected
Holds(key, expected, rec) ==
    LET value == Field(rec, Target(key)[1], Target(key)[2])
    IN  CASE expected = AtLeast2 -> IsInt(value) /\ value.n >= 2
          [] expected = WarnOf   -> "level" \in DOMAIN rec.header
                                       /\ rec.header.level = JStr("warn")
          [] expected = Thrower  -> FALSE
          [] OTHER               -> value = expected

\* the records of get({}) that satisfy the predicates of the keys, in order
Matching(w, f, keys) ==
    SelectSeq(get(w, EmptyObj).val, LAMBDA rec : \A k \in keys : Holds(k, f[k], rec))

\* C28 as stated: every key of the filter is a predicate, matched by strict
\* equality when its value is not callable, and get returns the records of
\* get({}) that satisfy all of them, in order, without throwing.
C28_KeyPredicates ==
    (last.op = "get" /\ last.filter \in PredicateFilters)
       => last.ret = Ok(Matching(worker, last.filter.o, DOMAIN last.filter.o))

\* C28, amended: as stated, for the keys of the filter whose value is not
\* undefined; a key whose value is undefined adds no predicate.
C28_KeyPredicatesDefined ==
    (last.op = "get" /\ last.filter \in PredicateFilters)
       => last.ret = Ok(Matching(worker, last.filter.o,
                                 { k \in DOMAIN last.filter.o : last.filter.o[k] # JUndef }))

\* a callable predicate on body.code kept one of the two records of a
\* wrapped ring
C28_Witness ==
    /\ last.op = "get"
    /\ last.filter = JObj([k \in {"body.code"} |-> AtLeast2])
    /\ last.ret.ok /\ Len(last.ret.val) = 1
    /\ worker.max = 2 /\ worker._cursor = 1 /\ Len(worker._events) = 2

\* ------------------------------------------------------------------------
\* The Worker with a clock the caller supplies at construction or through
\* configure({clock}); a caller's function may return any value
\* ------------------------------------------------------------------------
MaxClockEmits == 3

\* what a call of the Worker's clock may return
ClockReturns(w) ==
    IF w.clock = DateNow THEN {JNum(1), JNum(2)}
    ELSE {JNum(1), JNum(2), JNull, JUndef}

InitClock ==
    /\ \E opts \in { [name |-> JStr("net"), max |-> JNum(m)] : m \in {0, 2} }
                   \cup { [name |-> JStr("net"), max |-> JNum(m), clock |-> Clock] : m \in {0, 2} } :
         worker = Constructor(opts).val
    /\ hist = <<>>
    /\ last = [op |-> "new"]
    /\ limitChanged = FALSE
    /\ cleared = FALSE
    /\ manager = NoManager

EmitClock ==
    /\ Len(hist) < MaxClockEmits
    /\ \E at \in ClockReturns(worker) :
         \E r \in { emit(worker, Payload, EmptyObj.o,
                         [id |-> Len(hist) + 1, at |-> at, clockThrows |-> FALSE,
                          hookThrows |-> FALSE, printThrows |-> FALSE, copies |-> TRUE]) } :
             /\ worker' = r.w
             /\ hist' = IF r.ret # JNull THEN Append(hist, r.ret) ELSE hist
             /\ last' = [op |-> "emit", at |-> at, ret |-> r.ret, threw |-> r.threw]
    /\ UNCHANGED <<manager, limitChanged, cleared>>

ConfigureClock ==
    /\ \E patch \in { JObj([clock |-> Clock]), JObj([clock |-> JNull]) } :
         \E r \in { configure(worker, patch) } :
             /\ worker' = r.w
             /\ last' = [op |-> "configure", threw |-> r.threw]
    /\ UNCHANGED <<manager, hist, limitChanged, cleared>>

NextClock == EmitClock \/ ConfigureClock \/ Clear

SpecClock == InitClock /\ [][NextClock]_vars

\* C27: every record the Worker retains has a header.at that is neither null
\* nor undefined, whatever function the caller gave as the clock.
C27_HeaderAtNonNull ==
    \A i \in 1..Len(worker._events) :
        worker._events[i] # Hole => NotNullish(worker._events[i].header.at)

\* the values a caller may give as a workspace, and those among them that
\* are plain key-valued objects
WorkspaceValues ==
    { Workspace, JObj([tag |-> JNum(2)]), EmptyObj,
      JNull, JUndef, JArr(<<>>), JArr(<<JNum(1)>>), JNum(5), JNum(0), JStr("ws"),
      JBool(TRUE), Hook }

PlainObjects == { Workspace, JObj([tag |-> JNum(2)]), EmptyObj }

InstalledFor(v) == IF v \in PlainObjects THEN v ELSE EmptyObj

\* ------------------------------------------------------------------------
\* The Worker whose workspace is given at construction and replaced through
\* configure, with a hook and a printer that receive it
\* ------------------------------------------------------------------------
MaxWorkspaceEmits == 2

\* the options of the constructor and the patches of configure: with a
\* workspace key of each value, and without the key
WorkspaceOpts(base, values) ==
    { JObj(MkObj([k \in DOMAIN base \cup {"workspace"} |->
                     IF k = "workspace" THEN v ELSE base[k]])) : v \in values \cup {Absent} }

InitWorkspace ==
    /\ \E opts \in WorkspaceOpts([name |-> JStr("net"), console |-> JStr("warn"),
                                  onEvent |-> Hook, onPrint |-> Printer],
                                 WorkspaceValues \ {JObj([tag |-> JNum(2)])}) :
         /\ worker = Constructor(opts.o).val
         /\ last = [op |-> "new", opts |-> opts]
    /\ hist = <<>>
    /\ limitChanged = FALSE
    /\ cleared = FALSE
    /\ manager = NoManager

EmitWorkspace ==
    /\ Len(hist) < MaxWorkspaceEmits
    /\ \E env \in EmitEnvs({1}, {FALSE}) :
         \E r \in { emit(worker, Payload, [level |-> JStr("error")], env) } :
             /\ worker' = r.w
             /\ hist' = IF r.ret # JNull THEN Append(hist, r.ret) ELSE hist
             /\ last' = [op |-> "emit", ret |-> r.ret, threw |-> r.threw, steps |-> r.steps]
    /\ UNCHANGED <<manager, limitChanged, cleared>>

ConfigureWorkspace ==
    /\ \E patch \in WorkspaceOpts(<<>>, WorkspaceValues)
                       \cup WorkspaceOpts([max |-> JNum(1)], WorkspaceValues) :
         \E r \in { configure(worker, patch) } :
             /\ worker' = r.w
             /\ last' = [op |-> "configure", patch |-> patch, threw |-> r.threw]
             /\ limitChanged' = (limitChanged \/ r.w.max # worker.max)
    /\ UNCHANGED <<manager, hist, cleared>>

NextWorkspace == EmitWorkspace \/ ConfigureWorkspace \/ Clear

SpecWorkspace == InitWorkspace /\ [][NextWorkspace]_vars

\* C29: configure and the constructor install a workspace value that is a
\* plain key-valued object as it is and an empty object for any other
\* value; without the key configure leaves the workspace unchanged (a new
\* Worker has an empty one); no other call changes the workspace, and every
\* onEvent and print call of an emit receives the Worker's workspace.
C29_WorkspaceHandling ==
    [][ /\ last.op = "new"
           => worker.userWorkspace
                 = (IF "workspace" \in DOMAIN last.opts.o
                    THEN InstalledFor(last.opts.o.workspace) ELSE EmptyObj)
        /\ last'.op = "configure"
           => /\ ~last'.threw
              /\ worker'.userWorkspace
                    = (IF "workspace" \in DOMAIN last'.patch.o
                       THEN InstalledFor(last'.patch.o.workspace)
                       ELSE worker.userWorkspace)
        /\ last'.op # "configure" => worker'.userWorkspace = worker.userWorkspace
        /\ last'.op = "emit"
           => /\ Len(last'.steps) >= 3
              /\ \A i \in 1..Len(last'.steps) :
                    last'.steps[i].step \in {"onEvent", "print"}
                       => last'.steps[i].workspace = worker.userWorkspace ]_vars

\* after the workspace of construction was replaced through configure by
\* an object no Worker is constructed with here, an emit called the hook
\* and the printer with it
C29_Witness ==
    /\ last.op = "emit"
    /\ worker.userWorkspace = JObj([tag |-> JNum(2)])
    /\ \E i \in 1..Len(last.steps) :
          last.steps[i].step = "onEvent" /\ last.steps[i].workspace = worker.userWorkspace
    /\ \E i \in 1..Len(last.steps) :
          last.steps[i].step = "print" /\ last.steps[i].workspace = worker.userWorkspace

\* the values given as a limit, by what the normalization is to make of
\* them: limit 0, the value itself, or a thrown error
UnboundedLimits == { JUndef, JNull, JBool(FALSE), JStr(""), JNaN, JNum(0), JStr("0") }
PositiveLimits  == { JNum(n) : n \in 1..MaxLimit }
InvalidLimits   == { JNum(0 - 1), JFrac, JStr("-1"), JStr("1.5"), JStr("abc"), JStr(" "),
                     JBool(TRUE), EmptyObj }

LimitFor(v) == IF v \in PositiveLimits THEN v.n ELSE 0

\* C30: at construction, in setLogMax and in configure({max}), a falsy
\* value, 0 or "0" gives limit 0 and stats().ring false, a positive integer
\* gives that limit and ring true, and a negative, non-integer or
\* non-numeric value throws; a setLogMax that throws leaves the Worker as
\* it was.
C30_LimitNormalization ==
    /\ \A v \in UnboundedLimits \cup PositiveLimits :
          /\ \A r \in { setLogMax(worker, v) } :
                /\ ~r.threw
                /\ r.w.max = LimitFor(v)
                /\ stats(r.w).ring = (v \in PositiveLimits)
          /\ \A r \in { configure(worker, JObj([max |-> v])) } :
                ~r.threw /\ r.w.max = LimitFor(v)
          /\ \A r \in { Constructor([name |-> JStr("net"), max |-> v]) } :
                r.ok /\ r.val.max = LimitFor(v) /\ stats(r.val).ring = (v \in PositiveLimits)
    /\ \A v \in InvalidLimits :
          /\ \A r \in { setLogMax(worker, v) } : r.threw /\ r.w = worker
          /\ configure(worker, JObj([max |-> v])).threw
          /\ ~Constructor([name |-> JStr("net"), max |-> v]).ok

\* ------------------------------------------------------------------------
\* A Manager whose callers name the same bucket by a number, by its string
\* form and by a padded string, and pass names that are not valid
\* ------------------------------------------------------------------------
MaxNameEmits == 2

Aliases == {JNum(0), JStr("0"), JStr(" 0 ")}

InvalidNameValues == {JStr(""), JStr(" "), JNaN, JInf, JNull, JUndef, EmptyObj, JBool(TRUE)}

CallerNames == Aliases \cup {JStr("net"), JStr(" "), JNull}

InitNames ==
    /\ \E made \in { ManagerConstructor([worker |-> JObj([max |-> JNum(2)])]) } :
          manager = made.val
    /\ worker = JNull
    /\ hist = <<>>
    /\ last = [op |-> "new"]
    /\ limitChanged = FALSE
    /\ cleared = FALSE

NamedCreate ==
    /\ \E name \in CallerNames :
         \E r \in { createBucket(manager, name, JUndef) } :
             /\ manager' = r.m
             /\ last' = [op |-> "createBucket", name |-> name, threw |-> r.threw,
                         key |-> r.key]
    /\ UNCHANGED <<worker, hist, limitChanged, cleared>>

NamedEnsure ==
    /\ \E name \in CallerNames :
         \E r \in { ensureBucket(manager, name, JUndef) } :
             /\ manager' = r.m
             /\ last' = [op |-> "ensureBucket", name |-> name, threw |-> r.threw,
                         key |-> r.key]
    /\ UNCHANGED <<worker, hist, limitChanged, cleared>>

NamedLog ==
    /\ Len(hist) < MaxNameEmits
    /\ \E name \in CallerNames, env \in EmitEnvs({1}, {FALSE}) :
         \E r \in { Manager_log(manager, name, Payload, EmptyObj.o, env) } :
             /\ manager' = r.m
             /\ hist' = IF r.ret # JNull THEN Append(hist, r.ret) ELSE hist
             /\ last' = [op |-> "manager.emit", name |-> name, ret |-> r.ret,
                         threw |-> r.threw]
    /\ UNCHANGED <<worker, limitChanged, cleared>>

NamedLookup ==
    /\ \E name \in CallerNames :
         last' = [op |-> "bucket", name |-> name, found |-> bucket(manager, name).found,
                  ret |-> Manager_get(manager, name, JUndef)]
    /\ UNCHANGED <<manager, worker, hist, limitChanged, cleared>>

NamedClear ==
    /\ \E name \in CallerNames :
         \E r \in { Manager_clear(manager, name) } :
             /\ manager' = r.m
             /\ last' = [op |-> "clear", name |-> name, threw |-> r.threw]
    /\ cleared' = TRUE
    /\ UNCHANGED <<worker, hist, limitChanged>>

NextNames == NamedCreate \/ NamedEnsure \/ NamedLog \/ NamedLookup \/ NamedClear

SpecNames == InitNames /\ [][NextNames]_vars

\* the normalized form of the valid names of the model
NormalOf(name) ==
    CASE name \in Aliases     -> "0"
      [] name = JStr(" ui ")  -> "ui"
      [] name = JFrac         -> "1.5"
      [] OTHER                -> name.s

\* the environment of a log call made now
LogEnv ==
    [id |-> Len(hist) + 1, at |-> JNum(1), clockThrows |-> FALSE, hookThrows |-> FALSE,
     printThrows |-> FALSE, copies |-> TRUE]

\* C31: a string name is trimmed and a finite number is converted to its
\* string form, so 0, "0" and " 0 " address the same bucket in createBucket,
\* ensureBucket, bucket, get, clear and log; empty and whitespace-only
\* strings, NaN, Infinity, null, undefined and objects are invalid; every
\* entry of the registry is keyed by the normalized name, which is the name
\* of its Worker and the header.source of its records.
C31_NamesNormalized ==
    /\ \A n \in Aliases :
          /\ createBucket(manager, n, JUndef) = createBucket(manager, JStr("0"), JUndef)
          /\ ensureBucket(manager, n, JUndef) = ensureBucket(manager, JStr("0"), JUndef)
          /\ bucket(manager, n) = bucket(manager, JStr("0"))
          /\ Manager_get(manager, n, JUndef) = Manager_get(manager, JStr("0"), JUndef)
          /\ Manager_clear(manager, n) = Manager_clear(manager, JStr("0"))
          /\ Manager_log(manager, n, Payload, EmptyObj.o, LogEnv)
                = Manager_log(manager, JStr("0"), Payload, EmptyObj.o, LogEnv)
    /\ \A n \in Aliases \cup {JStr(" ui "), JFrac, JStr("net")} :
          /\ validateBucketName(n, TRUE) = Ok(JStr(NormalOf(n)))
          /\ validateBucketName(n, FALSE) = Ok(JStr(NormalOf(n)))
    /\ \A v \in InvalidNameValues :
          /\ validateBucketName(v, TRUE) = Throws
          /\ validateBucketName(v, FALSE) = Ok(JNull)
          /\ createBucket(manager, v, JUndef).threw
          /\ ensureBucket(manager, v, JUndef).threw
          /\ ~bucket(manager, v).found
          /\ Manager_log(manager, v, Payload, EmptyObj.o, LogEnv).ret = JNull
          /\ Manager_get(manager, v, JUndef) = Throws
    /\ \A k \in DOMAIN manager.workers :
          /\ k \in {"0", "net"}
          /\ manager.workers[k].name = k
          /\ \A i \in 1..Len(manager.workers[k]._events) :
                manager.workers[k]._events[i].header.source = JStr(k)
    /\ (last.op \in {"createBucket", "ensureBucket"} /\ ~last.threw)
          => last.key = NormalOf(last.name) /\ last.key \in DOMAIN manager.workers
    /\ (last.op = "manager.emit" /\ last.ret # JNull)
          => last.ret.header.source = JStr(NormalOf(last.name))

\* a log call naming the bucket " 0 " stored the second record of bucket "0"
C31_Witness ==
    /\ last.op = "manager.emit"
    /\ last.name = JStr(" 0 ")
    /\ last.ret # JNull
    /\ DOMAIN manager.workers = {"0", "net"}
    /\ Len(manager.workers["0"]._events) = 2

\* C32: while the limit is positive the write cursor is within 0..limit-1,
\* also right after the limit was changed and after clear(); and when the
\* buffer holds limit records the cursor is the index of the oldest one.
C32_CursorValid ==
    worker.max > 0
       => /\ worker._cursor \in 0..(worker.max - 1)
          /\ Len(worker._events) = worker.max
                => \A i \in 1..Len(worker._events) :
                      worker._events[worker._cursor + 1].id <= worker._events[i].id

\* ------------------------------------------------------------------------
\* The Worker emitting between clears, limit changes, clock replacements and
\* disable/enable cycles
\* ------------------------------------------------------------------------
MaxChainEmits == 3

\* what a call of the Worker's clock may return here
ChainReturns(w) ==
    IF w.clock = DateNow THEN {JNum(1), JNum(2)} ELSE {JNum(1), JNum(2), JNull}

EmitChain ==
    /\ Len(hist) < MaxChainEmits
    /\ \E at \in ChainReturns(worker) :
         \E r \in { emit(worker, Payload, EmptyObj.o,
                         [id |-> Len(hist) + 1, at |-> at, clockThrows |-> FALSE,
                          hookThrows |-> FALSE, printThrows |-> FALSE, copies |-> TRUE]) } :
             /\ worker' = r.w
             /\ hist' = IF r.ret # JNull THEN Append(hist, r.ret) ELSE hist
             /\ last' = [op |-> "emit", ret |-> r.ret, threw |-> r.threw, steps |-> r.steps]
    /\ UNCHANGED <<manager, limitChanged, cleared>>

SetLimitChain ==
    /\ \E value \in {JNum(0), JNum(1), JNum(2)} :
         \E r \in { setLogMax(worker, value) } :
             /\ worker' = r.w
             /\ last' = [op |-> "setLogMax", threw |-> r.threw]
             /\ limitChanged' = (limitChanged \/ r.w.max # worker.max)
    /\ UNCHANGED <<manager, hist, cleared>>

NextChain == EmitChain \/ ConfigureClock \/ Clear \/ SetLimitChain \/ SetEnabled

SpecChain == InitClock /\ [][NextChain]_vars

\* C33: each accepted record but the first carries as header.lastAt the
\* header.at of the record accepted before it, whatever was called between
\* the two emits; an emit dropped by a disabled Worker does not call the
\* clock and leaves the last accepted timestamp as it was.
C33_TimestampChain ==
    [][ /\ \A i \in 2..Len(hist') :
              Prop(hist'[i].header, "lastAt") = hist'[i - 1].header.at
        /\ (last'.op = "emit" /\ last'.ret = JNull)
              => /\ StepsOf(last'.steps, "clock") = {}
                 /\ worker'._lastAt = worker._lastAt ]_vars

\* C34: with a hook installed, an emit that returns a record calls the hook
\* exactly once, with that record, an emit that returns null does not call
\* it, and no emit calls the printer more than once.
C34_HookOncePerAccepted ==
    (last.op = "emit" /\ ~Falsy(worker.onEvent))
       => /\ Cardinality(HookSteps(last)) = (IF last.ret # JNull THEN 1 ELSE 0)
          /\ \A i \in HookSteps(last) : last.steps[i].record = last.ret
          /\ Cardinality(PrintSteps(last)) <= 1
          /\ Cardinality({ i \in 1..Len(hist) : hist[i] = last.ret }) <= 1

\* the third accepted emit on a ring of two called a hook that threw and
\* then the printer, once
C34_Witness ==
    /\ last.op = "emit" /\ last.ret # JNull
    /\ HookThrew(last)
    /\ Cardinality(PrintSteps(last)) = 1
    /\ Len(hist) = 3
    /\ worker.max = 2

\* C35: stats().count is never below stats().size; it equals the size at
\* construction and after clear(), and stays equal to it as long as the
\* limit stays 0.
C35_CountCoversSize ==
    [][ /\ stats(worker').count >= stats(worker').size
        /\ last.op = "new" => stats(worker).count = stats(worker).size
        /\ last'.op = "clear" => stats(worker').count = stats(worker').size
        /\ (worker.max = 0 /\ worker'.max = 0 /\ stats(worker).count = stats(worker).size)
              => stats(worker').count = stats(worker').size ]_vars

\* an unbounded Worker whose limit was never changed holds, after a clear,
\* the two records accepted since
C35_Witness ==
    /\ last.op = "emit"
    /\ worker.max = 0 /\ ~limitChanged /\ cleared
    /\ stats(worker).count = 2 /\ stats(worker).size = 2
    /\ Len(hist) = 4

\* C36: stats().size is the length of get({}); no slot of the storage is
\* empty or null, and get({}) returns every retained record once.
C36_SizeIsQueryLength ==
    /\ \A i \in 1..Len(worker._events) : worker._events[i] # Hole
    /\ \A r \in { get(worker, EmptyObj) } :
          /\ r.ok
          /\ Len(r.val) = stats(worker).size
          /\ { r.val[i] : i \in 1..Len(r.val) } = Retained(worker)
          /\ \A i, j \in 1..Len(r.val) : r.val[i] = r.val[j] => i = j

\* after the limit was changed, a Worker of limit two that accepted three
\* records holds two, with the cursor on the second slot
C36_Witness ==
    /\ last.op \in {"setLogMax", "configure"}
    /\ limitChanged
    /\ worker.max = 2 /\ Len(worker._events) = 2 /\ worker._cursor = 1
    /\ Len(hist) >= 3

\* patches with one valid and one invalid key
HalfValidPatches ==
    { JObj([enabled |-> JBool(FALSE), max |-> JNum(0 - 1)]),
      JObj([enabled |-> JBool(TRUE), max |-> JFrac]),
      JObj([console |-> JStr("warn"), clock |-> JNum(5)]),
      JObj([console |-> JNum(OFF), onEvent |-> JNum(5)]),
      JObj([max |-> JNum(1), onPrint |-> JNum(5)]) }

\* C37: a configure(patch) that throws because a key of the patch is invalid
\* leaves every field of the Worker as it was.
C37_ConfigureAtomic ==
    \A p \in HalfValidPatches \cup ObjectPatches \cup NonObjectPatches :
       \A r \in { configure(worker, p) } :
          /\ p \in HalfValidPatches => r.threw
          /\ r.threw => r.w = worker

\* the patches configureBucket fails on
InvalidBucketPatches ==
    { JNum(5), JNull, JStr("max"), JObj([max |-> JNum(0 - 1)]), JObj([clock |-> JNum(5)]),
      JObj([clone |-> JBool(TRUE), max |-> JFrac]) }

\* C38: a configureBucket(name, patch) that throws because the patch is
\* invalid leaves the registry with the buckets it had: a bucket that did
\* not exist before the call does not exist after it.
C38_FailedConfigureCreatesNothing ==
    \A name \in {JStr("net"), JStr(" ui ")}, p \in InvalidBucketPatches :
       \A r \in { configureBucket(manager, name, p) } :
          /\ r.threw
          /\ DOMAIN r.m.workers = DOMAIN manager.workers

\* ------------------------------------------------------------------------
\* A Manager whose buckets are configured, and created, through
\* configureBucket with patches that carry clone and workspace keys
\* ------------------------------------------------------------------------
ClonePatches ==
    { JObj([clone |-> JBool(TRUE), console |-> JStr("info")]),
      JObj([clone |-> JBool(FALSE), max |-> JNum(1)]),
      JObj([workspace |-> JNull]),
      JObj([max |-> JNum(2)]) }

InitBucketConfig ==
    /\ \E c \in BOOLEAN :
         \E made \in { ManagerConstructor(
                      [worker  |-> JObj([console |-> JStr("warn"), clone |-> JBool(c),
                                         workspace |-> Workspace]),
                       buckets |-> <<[key |-> "net", value |-> JObj([max |-> JNum(2)])]>>]) } :
            manager = made.val
    /\ worker = JNull
    /\ hist = <<>>
    /\ last = [op |-> "new"]
    /\ limitChanged = FALSE
    /\ cleared = FALSE

ConfigureBucketClone ==
    /\ \E name \in {JStr("net"), JStr(" ui ")}, patch \in ClonePatches :
         \E r \in { configureBucket(manager, name, patch) } :
             /\ manager' = r.m
             /\ last' = [op |-> "configureBucket", name |-> name, patch |-> patch,
                         threw |-> r.threw, key |-> r.key]
    /\ UNCHANGED <<worker, hist, limitChanged, cleared>>

NextBucketConfig == ConfigureBucketClone

SpecBucketConfig == InitBucketConfig /\ [][NextBucketConfig]_vars

\* the patch without its clone key
WithoutClone(patch) == JObj([k \in DOMAIN patch.o \ {"clone"} |-> patch.o[k]])

\* C39: configureBucket on an existing bucket leaves its clone policy as it
\* was and applies the other keys of the patch as Worker.configure does; on
\* a missing bucket it creates the bucket with the clone and the workspace
\* of the patch, or the Manager's defaults where the patch has no such key,
\* and then applies the other keys; no other bucket changes.
C39_CloneIsCreationOnly ==
    [][ last'.op = "configureBucket"
        => LET k == last'.key
               p == last'.patch.o
           IN  /\ ~last'.threw
               /\ DOMAIN manager'.workers = DOMAIN manager.workers \cup {k}
               /\ \A o \in DOMAIN manager.workers \ {k} :
                     manager'.workers[o] = manager.workers[o]
               /\ k \in DOMAIN manager.workers
                     => /\ manager'.workers[k].clone = manager.workers[k].clone
                        /\ manager'.workers[k]
                              = configure(manager.workers[k], WithoutClone(last'.patch)).w
               /\ k \notin DOMAIN manager.workers
                     => /\ manager'.workers[k].clone
                              = (IF "clone" \in DOMAIN p THEN p.clone = JBool(TRUE)
                                 ELSE manager._workerConfig.o.clone = JBool(TRUE))
                        /\ manager'.workers[k].userWorkspace
                              = (IF "workspace" \in DOMAIN p THEN InstalledFor(p.workspace)
                                 ELSE manager._workerConfig.o.workspace)
                        /\ manager'.workers[k]
                              = configure(
                                  [createBucket(manager, JStr(k), JUndef).m.workers[k]
                                     EXCEPT !.clone = manager'.workers[k].clone,
                                            !.userWorkspace = manager'.workers[k].userWorkspace],
                                  WithoutClone(last'.patch)).w ]_vars

\* a patch with clone: true was applied to the existing bucket net, whose
\* clone policy is off, next to a bucket that was created with clone on
C39_Witness ==
    /\ last.op = "configureBucket" /\ last.key = "net"
    /\ last.patch = JObj([clone |-> JBool(TRUE), console |-> JStr("info")])
    /\ ~manager.workers["net"].clone
    /\ manager.workers["net"].console = INFO
    /\ "ui" \in DOMAIN manager.workers /\ manager.workers["ui"].clone

\* records of every level of the model, next to the retained ones
LevelRecords ==
    Retained(worker)
      \cup { [header |-> [level |-> l]] :
               l \in {JStr("error"), JStr("warn"), JStr("warning"), JStr("info"), JStr("log"),
                      JStr("debug"), JStr("WARN"), JNum(5), JBool(TRUE)} }
      \cup { [header |-> [at |-> JNum(1)]] }

\* C40: a record printed under a console policy is printed under every
\* higher policy, and is printed under LOG exactly when it is printed under
\* ALL, whatever its level.
C40_PrintMonotone ==
    \A rec \in LevelRecords :
       /\ \A p, q \in OFF..ALL :
             (p <= q /\ shouldPrint(rec, JNum(p))) => shouldPrint(rec, JNum(q))
       /\ shouldPrint(rec, JNum(LOG)) <=> shouldPrint(rec, JNum(ALL))
       /\ shouldPrint(rec, JStr("log")) <=> shouldPrint(rec, JBool(TRUE))

\* a record of a level that is not known was printed under the policy LOG
C40_Witness ==
    /\ last.op = "emit" /\ last.ret # JNull
    /\ last.ret.header.level = JStr("debug")
    /\ \E st \in StepsOf(last.steps, "print") : st.policy = LOG
    /\ last.ret \in Retained(worker)

====
